---------------------------- MODULE Spec2Model ----------------------------
(***************************************************************************)
(* Model of the serial protocol and connection layer of the line follower  *)
(* application: the frame codec (SerialMessage), the stream parser         *)
(* (SerialParser), the connection manager (BluetoothApi) with the worker   *)
(* thread that runs its read loop (BluetoothListenerWorker), the state     *)
(* store (LineFollower) and the telemetry decoder (Mapper, OperationData). *)
(*                                                                         *)
(* Bytes are the integers 0..255, byte strings are sequences of bytes      *)
(* (Python index i is TLA+ index i + 1).  The membership test              *)
(* "byte in SerialMessages" is modelled with the semantics of Python 3.12  *)
(* and later (true exactly for the values of the enumeration).             *)
(***************************************************************************)
EXTENDS Integers, Sequences, FiniteSets, TLC

(***************************************************************************)
(* Protocol constants.                                                     *)
(***************************************************************************)
SERIAL_FRAME_START == 170
SERIAL_MESSAGE_MAX_PAYLOAD == 8
SERIAL_MESSAGE_MINIMUM_SIZE == 3
NEWLINE == 10

INVALID_MESSAGE == 0
PING == 1
START == 2
STOP == 3
\* SerialMessages.STATE (STATE is a reserved word of TLA+)
MSG_STATE == 4
RUNNING_MODE == 5
STOP_MODE == 6
LAPS == 7
STOP_TIME == 8
STOP_DISTANCE == 9
LOG_DATA == 10
PID_KP == 11
PID_KI == 12
PID_KD == 13
PID_KB == 14
PID_KFF == 15
PID_ALPHA == 16
PID_CLAMP == 17
PID_ACCEL == 18
PID_BASE_PWM == 19
PID_MAX_PWM == 20
TURBINE_PWM == 21
SPEED_KP == 22
SPEED_KI == 23
SPEED_KD == 24
SPEED_KFF == 25
BASE_SPEED == 26
LOOKAHEAD == 27
WHEEL_BASE_CORRECTION == 28
IMU_ALPHA == 29
OPERATION_DATA == 30

Byte == 0..255

\* The values of the enumeration SerialMessages.
SerialMessages == INVALID_MESSAGE..OPERATION_DATA

\* The table of payload sizes, by message type.
SERIAL_MESSAGE_SIZES ==
    [t \in SerialMessages |->
        CASE t \in {INVALID_MESSAGE, PING, START, STOP} -> 0
          [] t \in {MSG_STATE, RUNNING_MODE, STOP_MODE, LAPS, STOP_TIME, LOG_DATA,
                    PID_KP, PID_KI, PID_KB, PID_KFF, LOOKAHEAD} -> 1
          [] t \in {PID_KD, PID_ACCEL, PID_BASE_PWM, PID_MAX_PWM, TURBINE_PWM,
                    SPEED_KP, SPEED_KI, SPEED_KD, BASE_SPEED, PID_ALPHA,
                    PID_CLAMP, STOP_DISTANCE, SPEED_KFF,
                    WHEEL_BASE_CORRECTION, IMU_ALPHA} -> 2
          [] t = OPERATION_DATA -> 8]

\* SERIAL_MESSAGE_SIZES.get(message, 0)
SizeOf(t) == IF t \in DOMAIN SERIAL_MESSAGE_SIZES THEN SERIAL_MESSAGE_SIZES[t] ELSE 0

(***************************************************************************)
(* SerialMessage: the dataclass and its constructors.                      *)
(***************************************************************************)
SerialMessage(m, p, s) == [message |-> m, payload |-> p, size |-> s]

\* SerialMessage(SerialMessages.INVALID_MESSAGE, b"", 0): the sentinel.
INVALID == SerialMessage(INVALID_MESSAGE, <<>>, 0)

\* The outcome of a call that raises instead of returning a SerialMessage.
Raised == SerialMessage(-1, <<>>, -1)

\* a ^ b on the n low bits.
RECURSIVE XorBits(_, _, _)
XorBits(a, b, n) ==
    IF n = 0 THEN 0
    ELSE ((a + b) % 2) + 2 * XorBits(a \div 2, b \div 2, n - 1)

\* a ^ b for every pair of bytes, computed once.
XorTable == [a \in Byte |-> [b \in Byte |-> XorBits(a, b, 8)]]

Xor(a, b) == XorTable[a][b]

\* The loop "for byte in payload: calculated_checksum ^= byte".
RECURSIVE XorFold(_, _)
XorFold(acc, p) == IF p = <<>> THEN acc ELSE XorFold(Xor(acc, Head(p)), Tail(p))

\* The checksum the code computes for (msg, payload): msg.value folded with
\* every payload byte, masked with 0xFF.
\* Mutant: the type id is left out of the checksum.
ValidateChecksumPayloadOnly(msg, p, checksum) == XorFold(0, p) % 256 = checksum

\* Mutant: the checksums are compared on their 7 low bits.
ValidateChecksumLow7(msg, p, checksum) == XorFold(msg, p) % 128 = checksum % 128

\* SerialMessage._validate_checksum: msg.value folded with every payload byte,
\* masked with 0xFF, compared with the checksum given.
validate_checksum(msg, p, checksum) == XorFold(msg, p) % 256 = checksum

\* frame[i] with Python's index i: raises IndexError outside the sequence.
OutOfRange == -1
At(bytes, i) == IF i + 1 \in 1..Len(bytes) THEN bytes[i + 1] ELSE OutOfRange

\* frame[a:b] for 0 <= a <= b: slicing never raises, it truncates.
Slice(bytes, a, b) ==
    LET hi == IF b < Len(bytes) THEN b ELSE Len(bytes)
    IN  IF a >= hi THEN <<>> ELSE SubSeq(bytes, a + 1, hi)

\* Mutant: the length of the frame is not compared with the size of its type.
FromFrameNoLengthCheck(bytes) ==
    IF Len(bytes) < SERIAL_MESSAGE_MINIMUM_SIZE THEN INVALID
    ELSE IF At(bytes, 0) # SERIAL_FRAME_START THEN INVALID
    ELSE IF At(bytes, 1) \notin SerialMessages THEN INVALID
    ELSE LET message_type == At(bytes, 1)
             expected_size == SizeOf(message_type)
             p == Slice(bytes, 2, 2 + expected_size)
         IN  IF ~validate_checksum(message_type, p, At(bytes, Len(bytes) - 1))
             THEN INVALID
             ELSE SerialMessage(message_type, p, expected_size)

\* SerialMessage.from_frame
from_frame(bytes) ==
    IF Len(bytes) < SERIAL_MESSAGE_MINIMUM_SIZE THEN INVALID
    ELSE IF At(bytes, 0) = OutOfRange THEN Raised
    ELSE IF At(bytes, 0) # SERIAL_FRAME_START THEN INVALID
    ELSE IF At(bytes, 1) = OutOfRange THEN Raised
    ELSE IF At(bytes, 1) \notin SerialMessages THEN INVALID
    ELSE LET message_type == At(bytes, 1)
             expected_size == SizeOf(message_type)
             p == Slice(bytes, 2, 2 + expected_size)
         IN  IF Len(bytes) # expected_size + SERIAL_MESSAGE_MINIMUM_SIZE THEN INVALID
             ELSE IF ~validate_checksum(message_type, p, At(bytes, Len(bytes) - 1))
             THEN INVALID
             ELSE SerialMessage(message_type, p, expected_size)

\* "no checksum given": the default None of from_message's third parameter.
None == -2

\* Mutant: the length of the payload is not compared with the size of the type.
FromMessageNoSizeCheck(msg, p, checksum) ==
    LET expected_size == SizeOf(msg)
    IN  IF checksum # None /\ ~validate_checksum(msg, p, checksum) THEN INVALID
        ELSE SerialMessage(msg, p, expected_size)

\* SerialMessage.from_message
from_message(msg, p, checksum) ==
    LET expected_size == SizeOf(msg)
    IN  IF Len(p) # expected_size THEN INVALID
        ELSE IF checksum # None /\ ~validate_checksum(msg, p, checksum) THEN INVALID
        ELSE SerialMessage(msg, p, expected_size)

\* Mutant: the type id is left out of the frame.
FramePayloadOnly(m) == m.payload

\* SerialMessage.frame: bytes([self.message.value]) + self.payload
frame(m) == <<m.message>> \o m.payload

(***************************************************************************)
(* SerialParser.  A parser object is a record of its fields; a handler     *)
(* returns the parser after the call and the callbacks it invoked, in      *)
(* order (on_frame with a message, on_log with a text).                    *)
(***************************************************************************)
SYNC == 0
ID == 1
PAYLOAD == 2
CHECKSUM == 3

\* self._message = None
NoMessage == SerialMessage(None, <<>>, 0)

FrameEvent(m) == [kind |-> "frame", msg |-> m, text |-> <<>>]
LogEvent(t) == [kind |-> "log", msg |-> NoMessage, text |-> t]

\* SerialParser.__init__
NewParser ==
    [state |-> SYNC,
     msg_id |-> INVALID_MESSAGE,
     expected_payload_size |-> 0,
     payload |-> <<>>,
     log_buffer |-> <<>>,
     message |-> NoMessage]

Step(p, emitted) == [parser |-> p, emit |-> emitted]

\* bytes.decode("latin-1"): one character per byte, the character whose code
\* point is the byte's value.  A text is the sequence of its code points.
Latin1Decode(bytes) == [i \in 1..Len(bytes) |-> bytes[i]]

\* Mutant: the payload buffer is not cleared when a frame starts.
HandleIdByteKeepPayload(p, byte) ==
    LET id == IF byte \in SerialMessages THEN byte ELSE INVALID_MESSAGE
        size == SizeOf(id)
    IN  Step([p EXCEPT !.msg_id = id,
                       !.expected_payload_size = size,
                       !.state = IF size > 0 THEN PAYLOAD ELSE CHECKSUM],
             <<>>)

\* Mutant: an unknown id is followed by a payload.
HandleIdByteUnknownToPayload(p, byte) ==
    LET id == IF byte \in SerialMessages THEN byte ELSE INVALID_MESSAGE
        size == SizeOf(id)
    IN  Step([p EXCEPT !.msg_id = id,
                       !.expected_payload_size = size,
                       !.payload = <<>>,
                       !.state = IF size > 0 \/ byte \notin SerialMessages
                                 THEN PAYLOAD ELSE CHECKSUM],
             <<>>)

\* Mutant: the text buffered before a frame is dropped when the frame begins.
HandleIdByteDropsText(p, byte) ==
    LET id == IF byte \in SerialMessages THEN byte ELSE INVALID_MESSAGE
        size == SizeOf(id)
    IN  Step([p EXCEPT !.msg_id = id,
                       !.expected_payload_size = size,
                       !.payload = <<>>,
                       !.log_buffer = <<>>,
                       !.state = IF size > 0 THEN PAYLOAD ELSE CHECKSUM],
             <<>>)

\* SerialParser._handle_id_byte
handle_id_byte(p, byte) ==
    LET id == IF byte \in SerialMessages THEN byte ELSE INVALID_MESSAGE
        size == SizeOf(id)
    IN  Step([p EXCEPT !.msg_id = id,
                       !.expected_payload_size = size,
                       !.payload = <<>>,
                       !.state = IF size > 0 THEN PAYLOAD ELSE CHECKSUM],
             <<>>)

\* SerialParser._handle_payload_byte
handle_payload_byte(p, byte) ==
    LET buf == Append(p.payload, byte)
    IN  Step([p EXCEPT !.payload = buf,
                       !.state = IF Len(buf) = p.expected_payload_size
                                 THEN CHECKSUM ELSE p.state],
             <<>>)

\* Mutant: a frame that does not validate is not emitted and the parser waits
\* for a checksum that does.
HandleChecksumByteStay(p, byte) ==
    LET m == from_message(p.msg_id, p.payload, byte)
    IN  Step([p EXCEPT !.message = m,
                       !.state = IF m = INVALID THEN CHECKSUM ELSE SYNC],
             IF m = INVALID THEN <<>> ELSE <<FrameEvent(m)>>)

\* Mutant: the frame is built without its checksum byte being verified.
HandleChecksumByteUnchecked(p, byte) ==
    LET m == from_message(p.msg_id, p.payload, None)
    IN  Step([p EXCEPT !.message = m, !.state = SYNC], <<FrameEvent(m)>>)

\* SerialParser._handle_checksum_byte
handle_checksum_byte(p, byte) ==
    LET m == from_message(p.msg_id, p.payload, byte)
    IN  Step([p EXCEPT !.message = m, !.state = SYNC], <<FrameEvent(m)>>)

\* Mutant: the newline is appended to the buffer before the line is emitted.
HandleLogByteWithNewline(p, byte) ==
    IF byte # NEWLINE
    THEN Step([p EXCEPT !.log_buffer = Append(p.log_buffer, byte)], <<>>)
    ELSE Step([p EXCEPT !.log_buffer = <<>>],
              <<LogEvent(Latin1Decode(Append(p.log_buffer, byte)))>>)

\* SerialParser._handle_log_byte
handle_log_byte(p, byte) ==
    IF byte # NEWLINE
    THEN Step([p EXCEPT !.log_buffer = Append(p.log_buffer, byte)], <<>>)
    ELSE Step([p EXCEPT !.log_buffer = <<>>], <<LogEvent(Latin1Decode(p.log_buffer))>>)

\* SerialParser._handle_data_byte
handle_data_byte(p, byte) ==
    IF p.state = ID THEN handle_id_byte(p, byte)
    ELSE IF p.state = PAYLOAD THEN handle_payload_byte(p, byte)
    ELSE IF p.state = CHECKSUM THEN handle_checksum_byte(p, byte)
    ELSE Step(p, <<>>)

\* Mutant: the start byte begins a frame in every state.
FeedByteRestarts(p, byte) ==
    IF byte = 170 THEN Step([p EXCEPT !.state = ID], <<>>)
    ELSE IF p.state # SYNC THEN handle_data_byte(p, byte)
    ELSE handle_log_byte(p, byte)

\* SerialParser.feed_byte
feed_byte(p, byte) ==
    IF p.state # SYNC THEN handle_data_byte(p, byte)
    ELSE IF byte = 170 THEN Step([p EXCEPT !.state = ID], <<>>)
    ELSE handle_log_byte(p, byte)

\* Mutant: the callbacks of one read are invoked newest first.
RECURSIVE FeedAllNewestFirst(_, _, _)
FeedAllNewestFirst(p, emitted, data) ==
    IF data = <<>> THEN Step(p, emitted)
    ELSE LET r == feed_byte(p, Head(data))
         IN  FeedAllNewestFirst(r.parser, r.emit \o emitted, Tail(data))

\* The loop "for byte in data: parser.feed_byte(byte)": the parser after the
\* last byte and every callback invoked, in order.
RECURSIVE FeedAll(_, _, _)
FeedAll(p, emitted, data) ==
    IF data = <<>> THEN Step(p, emitted)
    ELSE LET r == feed_byte(p, Head(data))
         IN  FeedAll(r.parser, emitted \o r.emit, Tail(data))

(***************************************************************************)
(* The wire format the robot's side produces (it is the input of the       *)
(* decoder and of the parser): 0xAA, the type id, the payload, and the     *)
(* XOR of the type id with every payload byte, on 8 bits.                  *)
(***************************************************************************)
RECURSIVE WireChecksum(_, _)
WireChecksum(t, p) ==
    IF p = <<>> THEN t % 256 ELSE WireChecksum(Xor(t, Head(p)), Tail(p))

WireFrame(t, p, c) == <<170, t>> \o p \o <<c>>

\* Byte b with bit k flipped.
FlipBit(b, k) == Xor(b, 2 ^ k)

(***************************************************************************)
(* Bounds of the inputs.                                                   *)
(***************************************************************************)
\* Payloads of up to MaxFullPayload bytes are enumerated over every
\* combination of PayloadBytes; longer ones alternate two of these bytes.
MaxFullPayload == 2
\* Arbitrary byte strings given to from_frame have up to MaxLen bytes.
MaxLen == 4
\* Payloads given to from_message have up to MaxMsgPayload bytes.
MaxMsgPayload == 3

PayloadBytes == {0, 10, 170, 255}
ShortBytes == {170, 1, 4, 5}

SeqsUpTo(S, n) == UNION {[1..k -> S] : k \in 0..n}

Payloads(n) ==
    IF n <= MaxFullPayload THEN [1..n -> PayloadBytes]
    ELSE {[i \in 1..n |-> IF i % 2 = 1 THEN a ELSE b] : a, b \in PayloadBytes}

MsgPayloadBytes == {0, 170}

\* An input of the codec: the frame (or the message, payload and checksum)
\* handed to it, with what it was built from.
Input(k, t, p, c, f, b) ==
    [kind |-> k, type |-> t, payload |-> p, checksum |-> c, flip |-> f, bytes |-> b]

\* Every valid frame of every message type.
ValidFrameInputs ==
    UNION {{Input("valid", t, p, WireChecksum(t, p), -1,
                  WireFrame(t, p, WireChecksum(t, p))) :
               p \in Payloads(SERIAL_MESSAGE_SIZES[t])} : t \in SerialMessages}

\* Every valid frame with one bit of its checksum byte flipped.
FlippedFrameInputs ==
    {Input("flipped", v.type, v.payload, FlipBit(v.checksum, k), k,
           WireFrame(v.type, v.payload, FlipBit(v.checksum, k))) :
        v \in ValidFrameInputs, k \in 0..7}

\* Arbitrary short byte strings.
ByteStringInputs ==
    {Input("bytes", None, <<>>, None, -1, b) : b \in SeqsUpTo(ShortBytes, MaxLen)}

\* from_message's arguments: any type, any payload, and no checksum, the
\* right one or a wrong one.
MessageInputs ==
    {Input("message", t, p,
           CASE c = "none" -> None
             [] c = "right" -> WireChecksum(t, p)
             [] c = "wrong" -> FlipBit(WireChecksum(t, p), 0),
           -1, <<>>) :
        t \in SerialMessages,
        p \in SeqsUpTo(MsgPayloadBytes, MaxMsgPayload) \cup Payloads(SERIAL_MESSAGE_MAX_PAYLOAD),
        c \in {"none", "right", "wrong"}}

CodecInputs ==
    ValidFrameInputs \cup FlippedFrameInputs \cup ByteStringInputs \cup MessageInputs

(***************************************************************************)
(* State.                                                                  *)
(***************************************************************************)
VARIABLES
    input,      \* the input handed to the codec
    decoded,    \* the SerialMessage from_frame or from_message returned
    reencoded,  \* the bytes SerialMessage.frame returned for it
    done,       \* the operations applied to the input so far
    given,      \* the typed value handed to from_int or from_float
    parser,     \* the SerialParser object
    events,     \* the callbacks the parser invoked, in order (in SpecFeed
                \* and SpecLink: those of the last call)
    rx,         \* the bytes received and not yet read from the port
    sent,       \* history: what the robot's side sent, chunk by chunk
    progress,   \* history: the bytes fed and the frames emitted since the
                \* last 0xAA the parser took in SYNC
    bluetooth,  \* BluetoothApi._bluetooth: None or a serial.Serial object
                \* (its index in serials)
    serials,    \* the serial.Serial objects constructed so far
    com_port,   \* BluetoothApi._com_port
    last_receive_time,  \* BluetoothApi._last_receive_time
    ports,      \* the serial ports the system enumerates at present
    now,        \* time(), in tenths of a second
    call,       \* the last call made on the manager: its name, argument,
                \* return value and the operations it made on the transport
    written,    \* the byte strings the last call handed to the serial
                \* port's write, in order, each with the message it was
                \* made from
    signals,    \* the connection signals the last call emitted, in order
    observed,   \* what "connected" read as each of those signals was emitted
    worker,     \* the worker thread: its position in read_data, the error
                \* that escaped read_data, the operations it made on a port
                \* that was closed
    caller,     \* the caller's thread: its position in disconnect_serial or
                \* write_data, the calls it made
    listener,   \* BluetoothListenerWorker: its _listening flag, the position
                \* of its thread in run, the calls of start and stop made on
                \* it and the read_data calls it began
    store,      \* the fields of LineFollower, by the message type that
                \* updates each
    notified,   \* the signals LineFollower emitted for the last frame
    handled,    \* the last frame given to LineFollower, and whether its
                \* handling raised
    mapper,     \* the Mapper object: the telemetry record it decoded last
                \* and the one it wrote last to the gated log
    appended    \* the rows the last frame appended to the telemetry logs,
                \* in order

vars == <<input, decoded, reencoded, done, given, parser, events, rx, sent,
          progress, bluetooth, serials, com_port, last_receive_time, ports, now,
          call, written, signals, observed, worker, caller, listener, store, notified,
          handled, mapper, appended>>

codecVars == <<input, decoded, reencoded, done, given>>
streamVars == <<rx, sent>>
threadVars == <<worker, caller, listener>>
appVars == <<store, notified, handled, mapper, appended>>
linkVars == <<bluetooth, serials, com_port, last_receive_time, ports, now, call,
              written, signals, observed, threadVars>>

NoInput == Input("none", None, <<>>, None, -1, <<>>)

NoProgress == [started |-> FALSE, id |-> None, bytes |-> 0, emits |-> 0]

\* The typed value handed to from_int (an int, den is 1) or to from_float
\* (the float num / den).
Given(op, t, num, den) == [op |-> op, type |-> t, num |-> num, den |-> den]
NoGiven == Given("none", None, 0, 1)

\* The parts of the state a specification does not use stay as constructed.
CodecIdle ==
    /\ input = NoInput
    /\ decoded = NoMessage
    /\ reencoded = <<>>
    /\ done = {}
    /\ given = NoGiven
StreamIdle == rx = <<>> /\ sent = <<>>

\* A call on the manager: what was called, with which port name, what it
\* returned ("True", "False" or "None"), what it did on the transport, what
\* raised SerialException in it ("" when nothing did) and what read(3)
\* returned to its liveness probe.
Call(name, arg, ret, ops, raised, echo) ==
    [name |-> name, arg |-> arg, ret |-> ret, ops |-> ops, raised |-> raised,
     echo |-> echo]
NoCall == Call("none", "", "None", <<>>, "", <<>>)

\* A thread at position pc.
Worker(pc, escaped, on_closed) == [pc |-> pc, escaped |-> escaped, on_closed |-> on_closed]
Caller(pc, calls) == [pc |-> pc, calls |-> calls]

\* A BluetoothListenerWorker: the flag _listening, the position of its thread
\* in run ("created" before start), the calls of start and of stop made on
\* it, the read_data calls its loop began, and the passes of the loop's test
\* that found the flag set since the last stop.
Listener(listening, pc, starts, stops, reads, passes) ==
    [listening |-> listening, pc |-> pc, starts |-> starts, stops |-> stops,
     reads |-> reads, passes |-> passes]

\* BluetoothListenerWorker.__init__
NewListener == Listener(FALSE, "created", 0, 0, 0, 0)

ThreadsIdle ==
    /\ worker = Worker("idle", "", {})
    /\ caller = Caller("idle", 0)
    /\ listener = NewListener

\* A value held by a field of LineFollower: None, an int, a member of an
\* enumeration, a bool (num is 1 for True) or a float, the quotient of num
\* by den.
Value(kind, num, den) == [kind |-> kind, num |-> num, den |-> den]
NoValue == Value("None", 0, 1)

\* Mutant: every message type but OPERATION_DATA has an updater.
ConfigMapOfEveryType == SerialMessages \ {INVALID_MESSAGE, OPERATION_DATA}

\* LineFollower._config_map: the message types that update a field.
config_map ==
    {PID_KP, PID_KI, PID_KD, PID_KB, PID_KFF, PID_ACCEL, PID_BASE_PWM,
     PID_MAX_PWM, MSG_STATE, RUNNING_MODE, STOP_MODE, LAPS, STOP_TIME,
     STOP_DISTANCE, LOG_DATA, TURBINE_PWM, SPEED_KP, SPEED_KI, SPEED_KD,
     SPEED_KFF, BASE_SPEED, PID_ALPHA, PID_CLAMP, LOOKAHEAD,
     WHEEL_BASE_CORRECTION, IMU_ALPHA}

\* A frame given to LineFollower._handle_serial_message.
Handled(m, raised) == [message |-> m, raised |-> raised]

\* An OperationData object; heading is a number, num / den.
OperationData(central, left, right, sensors, x, y, heading) ==
    [central_sensors_byte |-> central, left_sensor |-> left,
     right_sensor |-> right, sensors |-> sensors, x |-> x, y |-> y,
     heading |-> heading]

\* OperationData._empty_init
EmptyOperationData ==
    OperationData(0, 0, 0, [i \in 1..10 |-> 0], 0, 0, Value("int", 0, 1))

\* Mapper.__init__
Mapper(data, last) == [operation_data |-> data, last_encoder_update |-> last]
NewMapper == Mapper(EmptyOperationData, EmptyOperationData)

AppIdle ==
    /\ store = [t \in config_map |-> NoValue]
    /\ notified = <<>>
    /\ handled = Handled(NoMessage, FALSE)
    /\ mapper = NewMapper
    /\ appended = <<>>

LinkIdle ==
    /\ bluetooth = None
    /\ serials = <<>>
    /\ com_port = ""
    /\ last_receive_time = 0
    /\ ports = {}
    /\ now = 0
    /\ call = NoCall
    /\ written = <<>>
    /\ signals = <<>>
    /\ observed = <<>>
    /\ ThreadsIdle

(***************************************************************************)
(* The codec applied to one input.                                         *)
(***************************************************************************)
InitCodec ==
    /\ input \in CodecInputs
    /\ decoded = NoMessage
    /\ reencoded = <<>>
    /\ done = {}
    /\ given = NoGiven
    /\ parser = NewParser
    /\ events = <<>>
    /\ StreamIdle
    /\ LinkIdle
    /\ AppIdle
    /\ progress = NoProgress

\* message = SerialMessage.from_frame(data)
DoFromFrame ==
    /\ input.kind \in {"valid", "flipped", "bytes"}
    /\ "from_frame" \notin done
    /\ decoded' = from_frame(input.bytes)
    /\ done' = done \cup {"from_frame"}
    /\ UNCHANGED <<input, reencoded, given, parser, events, streamVars, linkVars,
                   appVars, progress>>

\* SerialMessage.from_message(message, payload, checksum)
DoFromMessage ==
    /\ input.kind = "message"
    /\ "from_message" \notin done
    /\ decoded' = from_message(input.type, input.payload, input.checksum)
    /\ done' = done \cup {"from_message"}
    /\ UNCHANGED <<input, reencoded, given, parser, events, streamVars, linkVars,
                   appVars, progress>>

\* message.frame
DoFrame ==
    /\ done \cap {"from_frame", "from_message"} # {}
    /\ "frame" \notin done
    /\ reencoded' = frame(decoded)
    /\ done' = done \cup {"frame"}
    /\ UNCHANGED <<input, decoded, given, parser, events, streamVars, linkVars,
                   appVars, progress>>

\* for byte in data: parser.feed_byte(byte), on a new parser
DoFeed ==
    /\ input.kind \in {"valid", "flipped", "bytes"}
    /\ "feed" \notin done
    /\ LET r == FeedAll(parser, events, input.bytes)
       IN  parser' = r.parser /\ events' = r.emit
    /\ done' = done \cup {"feed"}
    /\ UNCHANGED <<input, decoded, reencoded, given, streamVars, linkVars,
                   appVars, progress>>

NextCodec == DoFromFrame \/ DoFromMessage \/ DoFrame \/ DoFeed

SpecCodec == InitCodec /\ [][NextCodec]_vars

(***************************************************************************)
(* Claims on the codec.                                                    *)
(***************************************************************************)
\* C1: round trip.  For every message type T and every payload p of the size
\* the table gives for T, from_frame applied to the wire frame
\* 0xAA, T, p, checksum(T, p) returns the message of type T, payload p and
\* size len(p).
C1_RoundTrip ==
    (input.kind = "valid" /\ "from_frame" \in done)
        => decoded = SerialMessage(input.type, input.payload, Len(input.payload))

C1_Witness ==
    /\ input.kind = "valid" /\ "from_frame" \in done
    /\ input.type = OPERATION_DATA
    /\ decoded.size = 8

C7_ChecksumSensitive ==
    input.kind = "flipped" =>
        /\ "from_frame" \in done => decoded = INVALID
        /\ "feed" \in done =>
              /\ events = <<FrameEvent(INVALID)>>
              /\ parser.message = INVALID
              /\ parser.state = SYNC

C7_Witness ==
    /\ input.kind = "flipped" /\ input.flip = 7
    /\ input.type = OPERATION_DATA
    /\ done = {"from_frame", "feed"}
    /\ decoded = INVALID
    /\ events = <<FrameEvent(INVALID)>>

\* What C8 says from_frame returns for the byte string b.
C8_Expected(b) ==
    IF Len(b) < 3 THEN INVALID
    ELSE IF b[1] # 170 THEN INVALID
    ELSE IF b[2] \notin SerialMessages THEN INVALID
    ELSE IF Len(b) # 3 + SERIAL_MESSAGE_SIZES[b[2]] THEN INVALID
    ELSE IF b[Len(b)] # WireChecksum(b[2], SubSeq(b, 3, Len(b) - 1)) THEN INVALID
    ELSE SerialMessage(b[2], SubSeq(b, 3, Len(b) - 1), Len(b) - 3)

\* C8: from_frame fails soft.  For every byte string it returns a message and
\* never raises: INVALID when the string is shorter than 3 bytes, does not
\* start with 0xAA, has an unknown type byte, has a length other than
\* 3 + size(type) or has a wrong checksum, and the populated message otherwise.
C8_FailsSoft ==
    "from_frame" \in done =>
        /\ decoded # Raised
        /\ decoded = C8_Expected(input.bytes)

C8_Witness ==
    /\ "from_frame" \in done
    /\ input.kind = "bytes"
    /\ input.bytes = <<170, 1, 1, 1>>
    /\ decoded = INVALID

\* A message whose payload has the size of its type, or the INVALID sentinel.
WellFormed(m) ==
    \/ m = INVALID
    \/ /\ m.message \in SerialMessages \ {INVALID_MESSAGE}
       /\ Len(m.payload) = m.size
       /\ m.size = SERIAL_MESSAGE_SIZES[m.message]

\* C9: message invariant.  Every message from_frame or from_message returns,
\* and every message the parser emits, has a payload of the size the table
\* gives for its type, or is the INVALID sentinel with an empty payload and
\* size 0.
C9_MessageInvariant ==
    /\ done \cap {"from_frame", "from_message"} # {} => WellFormed(decoded)
    /\ \A i \in DOMAIN events : events[i].kind = "frame" => WellFormed(events[i].msg)
    /\ "feed" \in done /\ parser.message # NoMessage => WellFormed(parser.message)

C9_Witness ==
    /\ input.kind = "message" /\ "from_message" \in done
    /\ input.type = PID_KD /\ Len(input.payload) = 1
    /\ input.checksum = None
    /\ decoded = INVALID

(***************************************************************************)
(* The parser fed one byte at a time with arbitrary bytes.                 *)
(***************************************************************************)
\* The log buffer is kept to MaxLog bytes: a text byte is fed in SYNC only
\* while the buffer is shorter.
MaxLog == 1
\* The first VariedPayload payload bytes of a frame vary over PayloadFeedBytes,
\* the following ones are 0xAA.
VariedPayload == 2
\* The history counts up to ProgressCap bytes of a frame.
ProgressCap == 12

StartFeedBytes == {170, 10, 65, PING, PID_KD, OPERATION_DATA, 99}
PayloadFeedBytes == {170, 10, 160}

\* The bytes that may arrive next: start, newline, text, known and unknown
\* type ids; inside a payload 0xAA, 0x0A and 0xA0 (the payload of the
\* LOG_DATA frame whose checksum is 0xAA); as a checksum the right one, 0xAA
\* and 0x0A.
FeedBytes ==
    CASE parser.state \in {SYNC, ID} ->
            {b \in StartFeedBytes :
                (parser.state = SYNC /\ b \notin {170, NEWLINE})
                    => Len(parser.log_buffer) < MaxLog}
      [] parser.state = PAYLOAD ->
            IF Len(parser.payload) < VariedPayload THEN PayloadFeedBytes ELSE {170}
      [] OTHER ->
            {WireChecksum(parser.msg_id, parser.payload), 170, 10}

Min(a, b) == IF a < b THEN a ELSE b

FrameCount(emitted) == Cardinality({i \in DOMAIN emitted : emitted[i].kind = "frame"})

\* The history after the parser, in state `before`, was fed `byte` and
\* invoked the callbacks `emitted`.
Track(before, byte, emitted) ==
    IF before.state = SYNC
    THEN IF byte = 170
         THEN [started |-> TRUE, id |-> None, bytes |-> 0, emits |-> 0]
         ELSE progress
    ELSE [progress EXCEPT
            !.id = IF progress.bytes = 0 THEN byte ELSE @,
            !.bytes = Min(@ + 1, ProgressCap),
            !.emits = Min(@ + FrameCount(emitted), ProgressCap)]

InitFeed ==
    /\ parser = NewParser
    /\ events = <<>>
    /\ progress = NoProgress
    /\ CodecIdle
    /\ StreamIdle
    /\ LinkIdle
    /\ AppIdle

\* parser.feed_byte(b); `events` holds the callbacks of this call.
FeedByte(b) ==
    LET r == feed_byte(parser, b)
    IN  /\ parser' = r.parser
        /\ events' = r.emit
        /\ progress' = Track(parser, b, r.emit)
        /\ UNCHANGED <<codecVars, streamVars, linkVars, appVars>>

NextFeed == \E b \in FeedBytes : FeedByte(b)

\* Bytes keep arriving.
SpecFeed == InitFeed /\ [][NextFeed]_vars /\ WF_vars(NextFeed)

\* The size the table gives for the id byte of the frame (0 for an unknown id).
SizeOfId(b) == IF b \in SerialMessages THEN SERIAL_MESSAGE_SIZES[b] ELSE 0

\* Where the parser is, by the bytes fed since the 0xAA that started a frame.
C4_Position ==
    progress.started =>
        LET total == IF progress.id = None THEN 2 ELSE 2 + SizeOfId(progress.id)
        IN  /\ total <= 2 + SERIAL_MESSAGE_MAX_PAYLOAD
            /\ progress.bytes <= total
            /\ (parser.state = SYNC) = (progress.bytes = total)
            /\ parser.state # SYNC => progress.emits = 0
            /\ parser.state = SYNC => progress.emits = 1

\* C4: the parser is never stuck.  From SYNC, after a 0xAA the parser is back
\* in SYNC after exactly 2 + size(type) further bytes (at most 10; size 0 for
\* an unknown id), not before, having emitted exactly one frame; and while
\* bytes keep arriving, a parser outside SYNC returns to SYNC.
C4_NeverStuck ==
    /\ []C4_Position
    /\ (parser.state # SYNC) ~> (parser.state = SYNC)

C4_Witness ==
    /\ progress.started /\ progress.id = OPERATION_DATA
    /\ progress.bytes = 10 /\ progress.emits = 1
    /\ parser.state = SYNC
    /\ events = <<FrameEvent(INVALID)>>

(***************************************************************************)
(* The parser fed the stream the robot's side sends: frames and lines of   *)
(* text, one after the other.                                              *)
(***************************************************************************)
\* The robot's side sends up to MaxChunks frames or lines.
MaxChunks == 2
\* A line of text has up to MaxText characters before its newline.
MaxText == 2

StreamTypes == {PING, LOG_DATA, PID_KD, OPERATION_DATA}
StreamPayloadBytes == {10, 170}
UnknownIds == {31, 99, 170, 255}
TextBytes == {65, 1}

\* Valid frames.
FrameChunks ==
    {v \in ValidFrameInputs :
        /\ v.type \in StreamTypes
        /\ \A i \in DOMAIN v.payload : v.payload[i] \in StreamPayloadBytes}

\* 0xAA, a byte that is no message type, and one more byte.
UnknownChunks ==
    {Input("unknown", u, <<>>, c, -1, <<170, u, c>>) :
        u \in UnknownIds, c \in {0, 10, 170, 99}}

\* Text without 0xAA, ended by a newline.
TextChunks ==
    {Input("text", None, t, None, -1, Append(t, NEWLINE)) :
        t \in SeqsUpTo(TextBytes, MaxText)}

Chunks == FrameChunks \cup UnknownChunks \cup TextChunks

InitStream ==
    /\ parser = NewParser
    /\ events = <<>>
    /\ rx = <<>>
    /\ sent = <<>>
    /\ progress = NoProgress
    /\ CodecIdle
    /\ LinkIdle
    /\ AppIdle

\* The robot's side sends a frame or a line.
Arrive(c) ==
    /\ rx = <<>>
    /\ Len(sent) < MaxChunks
    /\ rx' = c.bytes
    /\ sent' = Append(sent, c)
    /\ UNCHANGED <<parser, events, progress, codecVars, linkVars, appVars>>

\* parser.feed_byte(byte) for the next byte received.
Consume ==
    /\ rx # <<>>
    /\ LET r == feed_byte(parser, Head(rx))
       IN  /\ parser' = r.parser
           /\ events' = events \o r.emit
    /\ rx' = Tail(rx)
    /\ UNCHANGED <<sent, progress, codecVars, linkVars, appVars>>

NextStream == (\E c \in Chunks : Arrive(c)) \/ Consume

SpecStream == InitStream /\ [][NextStream]_vars

\* The message a valid frame carries.
MessageOf(c) == SerialMessage(c.type, c.payload, Len(c.payload))

\* C5: resync.  Two valid frames fed back to back to a parser in SYNC with
\* empty buffers: exactly two frames are emitted, in order, each with the
\* type and the payload of its input frame, and no log line is emitted.
C5_BackToBack ==
    (/\ Len(sent) = 2 /\ rx = <<>>
     /\ sent[1].kind = "valid" /\ sent[2].kind = "valid")
        => events = <<FrameEvent(MessageOf(sent[1])), FrameEvent(MessageOf(sent[2]))>>

C5_Witness ==
    /\ Len(sent) = 2 /\ rx = <<>>
    /\ sent[1].kind = "valid" /\ sent[1].type = OPERATION_DATA
    /\ sent[2].kind = "valid" /\ sent[2].type = PID_KD
    /\ Len(events) = 2

\* C6: log and frame interleaved.  Text without 0xAA ended by 0x0A, then a
\* valid frame, fed to a parser in SYNC with empty buffers: the log line (the
\* text without the newline) is emitted exactly once and before the frame,
\* and the frame exactly once.
C6_LogThenFrame ==
    (/\ Len(sent) = 2 /\ rx = <<>>
     /\ sent[1].kind = "text" /\ sent[2].kind = "valid")
        => events = <<LogEvent(sent[1].payload), FrameEvent(MessageOf(sent[2]))>>

C6_Witness ==
    /\ Len(sent) = 2 /\ rx = <<>>
    /\ sent[1].kind = "text" /\ Len(sent[1].payload) = 2
    /\ sent[2].kind = "valid" /\ sent[2].type = LOG_DATA
    /\ Len(events) = 2

\* C10: unknown id.  When the byte after 0xAA is no known message type, the
\* parser takes it as INVALID with payload size 0 and goes to CHECKSUM; it
\* consumes exactly one more byte, whatever its value, emits one INVALID
\* message and is back in SYNC.
C10_UnknownId ==
    (Len(sent) > 0 /\ sent[Len(sent)].kind = "unknown") =>
        /\ Len(rx) = 2 =>
              /\ parser.state = ID
              /\ Len(events) = Len(sent) - 1
        /\ Len(rx) = 1 =>
              /\ parser.state = CHECKSUM
              /\ parser.msg_id = INVALID_MESSAGE
              /\ parser.expected_payload_size = 0
              /\ parser.payload = <<>>
              /\ Len(events) = Len(sent) - 1
        /\ Len(rx) = 0 =>
              /\ parser.state = SYNC
              /\ Len(events) = Len(sent)
              /\ events[Len(events)] = FrameEvent(INVALID)

C10_Witness ==
    /\ Len(sent) = 2 /\ rx = <<>>
    /\ sent[2].kind = "unknown" /\ sent[2].type = 170 /\ sent[2].checksum = 170
    /\ parser.state = SYNC
    /\ events[2] = FrameEvent(INVALID)


(***************************************************************************)
(* LineFollower._handle_serial_message with the updaters of the fields,    *)
(* and the telemetry decoder (Mapper, OperationData), as functions of the  *)
(* objects' fields.                                                        *)
(***************************************************************************)
\* The values of RobotStates, RunningModes and StopModes.
RobotStates == 0..4
RunningModes == 0..5
StopModes == 0..2

\* int.from_bytes(payload, byteorder="little")
RECURSIVE int_from_bytes(_)
int_from_bytes(p) ==
    IF p = <<>> THEN 0 ELSE Head(p) + 256 * int_from_bytes(Tail(p))

\* RobotStates(value), RunningModes(value) or StopModes(value) raised.
ValueError == Value("ValueError", 0, 1)

Enum(kind, members, value) ==
    IF value \in members THEN Value(kind, value, 1) ELSE ValueError

\* Mutant: SPEED_KI is stored in hundredths, as the other floats.
NewValueInHundredths(t, value) ==
    IF t = MSG_STATE THEN Enum("RobotStates", RobotStates, value)
    ELSE IF t = RUNNING_MODE THEN Enum("RunningModes", RunningModes, value)
    ELSE IF t = STOP_MODE THEN Enum("StopModes", StopModes, value)
    ELSE IF t = LOG_DATA THEN Value("bool", IF value = 1 THEN 1 ELSE 0, 1)
    ELSE IF t \in {SPEED_KI, PID_ALPHA, BASE_SPEED, WHEEL_BASE_CORRECTION, IMU_ALPHA}
        THEN Value("float", value, 100)
    ELSE Value("int", value, 1)

\* The value an updater makes of the int decoded from the payload.
new_value(t, value) ==
    IF t = MSG_STATE THEN Enum("RobotStates", RobotStates, value)
    ELSE IF t = RUNNING_MODE THEN Enum("RunningModes", RunningModes, value)
    ELSE IF t = STOP_MODE THEN Enum("StopModes", StopModes, value)
    ELSE IF t = LOG_DATA THEN Value("bool", IF value = 1 THEN 1 ELSE 0, 1)
    ELSE IF t = SPEED_KI THEN Value("float", value, 10000)
    ELSE IF t \in {PID_ALPHA, BASE_SPEED, WHEEL_BASE_CORRECTION, IMU_ALPHA}
        THEN Value("float", value, 100)
    ELSE Value("int", value, 1)

\* Python's == of a field with a new value of its own kind; None equals
\* none of them.
PyEq(a, b) == a.kind = b.kind /\ a.num * b.den = b.num * a.den

\* Mutant: every frame counts as a change.
AlwaysChanged(old, new) == TRUE

\* An updater's test, "if self._kp == kp: return False".
changed(old, new) == ~PyEq(old, new)

\* A signal of SignalHandler: state_changed(state) or attr_changed(type, value).
Signal(signal, t, value) == [signal |-> signal, type |-> t, value |-> value]

\* (b >> k) & 0x01
Bit(b, k) == (b \div (2 ^ k)) % 2

\* int.from_bytes(payload, byteorder="little", signed=True)
int_from_bytes_signed(p) ==
    LET u == int_from_bytes(p)
    IN  IF p # <<>> /\ u >= 2 ^ (8 * Len(p) - 1) THEN u - 2 ^ (8 * Len(p)) ELSE u

\* OperationData._organize_sensor_array
organize_sensor_array(central, left, right) ==
    <<left>> \o [i \in 1..8 |-> Bit(central, i - 1)] \o <<right>>

\* Mutant: x, y and the heading are read as unsigned integers.
UpdateUnsigned(payload) ==
    LET left == Bit(payload[2], 0)
        right == Bit(payload[2], 1)
    IN  OperationData(payload[1], left, right,
                      organize_sensor_array(payload[1], left, right),
                      int_from_bytes(Slice(payload, 2, 4)),
                      int_from_bytes(Slice(payload, 4, 6)),
                      Value("float", int_from_bytes(Slice(payload, 6, 8)), 10000))

\* OperationData.update, of a payload of 8 bytes (the size from_message
\* checked for OPERATION_DATA).
update(payload) ==
    LET left == Bit(payload[2], 0)
        right == Bit(payload[2], 1)
    IN  OperationData(payload[1], left, right,
                      organize_sensor_array(payload[1], left, right),
                      int_from_bytes_signed(Slice(payload, 2, 4)),
                      int_from_bytes_signed(Slice(payload, 4, 6)),
                      Value("float", int_from_bytes_signed(Slice(payload, 6, 8)), 10000))

\* Python's == of two numbers, int or float.
NumEq(a, b) == a.num * b.den = b.num * a.den

\* The test of Mapper._handle_encoder_update: position and heading are
\* those written last to the gated log.
same_position(data, last) ==
    data.x = last.x /\ data.y = last.y /\ NumEq(data.heading, last.heading)

\* What is appended to a file: the payload (BINARY_FILE) or the row of
\* _write_csv (SENSOR_DATA, the full-rate log; ENCODER_DATA, the gated log).
Row(file, payload, data) == [file |-> file, payload |-> payload, data |-> data]

\* What a call does to the objects: their fields after it, the signals
\* emitted, the rows appended, and whether it raised.
Outcome(st, mp, emitted, rows, raised) ==
    [store |-> st, mapper |-> mp, notified |-> emitted, appended |-> rows,
     raised |-> raised]

\* Mapper.handle_operation_data
handle_operation_data(mp, payload) ==
    LET data == update(payload)
        moved == ~same_position(data, mp.last_encoder_update)
    IN  [mapper |-> Mapper(data, IF moved THEN data ELSE mp.last_encoder_update),
         appended |->
             <<Row("BINARY_FILE", payload, EmptyOperationData),
               Row("SENSOR_DATA", <<>>, data)>>
             \o (IF moved THEN <<Row("ENCODER_DATA", <<>>, data)>> ELSE <<>>)]

\* Mutant: state_changed is emitted only when the state changed.
HandlingStateOnChange(st, mp, m) ==
    LET value == int_from_bytes(m.payload)
        new == new_value(m.message, value)
        is_changed == changed(st[m.message], new)
        after == IF is_changed THEN [st EXCEPT ![m.message] = new] ELSE st
    IN  IF m.message = OPERATION_DATA THEN
            LET h == handle_operation_data(mp, m.payload)
            IN  Outcome(st, h.mapper, <<>>, h.appended, FALSE)
        ELSE IF m.message \notin config_map THEN Outcome(st, mp, <<>>, <<>>, FALSE)
        ELSE IF new = ValueError THEN Outcome(st, mp, <<>>, <<>>, TRUE)
        ELSE Outcome(after, mp,
                     (IF m.message = MSG_STATE /\ is_changed
                      THEN <<Signal("state_changed", MSG_STATE, after[MSG_STATE].num)>>
                      ELSE <<>>)
                     \o (IF is_changed
                         THEN <<Signal("attr_changed", m.message, value)>>
                         ELSE <<>>),
                     <<>>, FALSE)

\* Mutant: state_changed is emitted before the store is updated.
HandlingEmitsStoredState(st, mp, m) ==
    LET value == int_from_bytes(m.payload)
        new == new_value(m.message, value)
        is_changed == changed(st[m.message], new)
        after == IF is_changed THEN [st EXCEPT ![m.message] = new] ELSE st
    IN  IF m.message = OPERATION_DATA THEN
            LET h == handle_operation_data(mp, m.payload)
            IN  Outcome(st, h.mapper, <<>>, h.appended, FALSE)
        ELSE IF m.message \notin config_map THEN Outcome(st, mp, <<>>, <<>>, FALSE)
        ELSE IF new = ValueError THEN Outcome(st, mp, <<>>, <<>>, TRUE)
        ELSE Outcome(after, mp,
                     (IF m.message = MSG_STATE
                      THEN <<Signal("state_changed", MSG_STATE, st[MSG_STATE].num)>>
                      ELSE <<>>)
                     \o (IF is_changed
                         THEN <<Signal("attr_changed", m.message, value)>>
                         ELSE <<>>),
                     <<>>, FALSE)

\* LineFollower._handle_serial_message on a store st and a mapper mp.
Handling(st, mp, m) ==
    LET value == int_from_bytes(m.payload)
        new == new_value(m.message, value)
        is_changed == changed(st[m.message], new)
        after == IF is_changed THEN [st EXCEPT ![m.message] = new] ELSE st
    IN  IF m.message = OPERATION_DATA THEN
            LET h == handle_operation_data(mp, m.payload)
            IN  Outcome(st, h.mapper, <<>>, h.appended, FALSE)
        ELSE IF m.message \notin config_map THEN Outcome(st, mp, <<>>, <<>>, FALSE)
        ELSE IF new = ValueError THEN Outcome(st, mp, <<>>, <<>>, TRUE)
        ELSE Outcome(after, mp,
                     (IF m.message = MSG_STATE
                      THEN <<Signal("state_changed", MSG_STATE, after[MSG_STATE].num)>>
                      ELSE <<>>)
                     \o (IF is_changed
                         THEN <<Signal("attr_changed", m.message, value)>>
                         ELSE <<>>),
                     <<>>, FALSE)

(***************************************************************************)
(* The connection manager: BluetoothApi, with LineFollower.send_message,   *)
(* the serial ports of the system and the clock.                           *)
(***************************************************************************)
\* Up to MaxHandles serial.Serial objects are constructed.
MaxHandles == 2
\* The clock is read at StartTime, PING_TIMEOUT later, and at every tenth of
\* a second from there up to MaxTime.
MaxTime == 24

\* SerialConfig.TIMEOUT, one second, and SerialConfig.PING_TIMEOUT.
TIMEOUT == 10
PING_TIMEOUT == (TIMEOUT * 11) \div 10

\* The clock at construction: time() is far beyond PING_TIMEOUT.
StartTime == PING_TIMEOUT + 1
Times == {StartTime} \cup ((StartTime + PING_TIMEOUT)..MaxTime)

\* SerialConfig.PORT
PORT == "COM3"

\* The names of the serial ports that come and go, with the number each
\* ends with, and a name that is never enumerated.
PortNames == {"COM3", "COM10"}
PortNumber == [n \in PortNames |-> IF n = "COM3" THEN 3 ELSE 10]
AbsentPort == "COM7"

\* BluetoothApi.list_available_ports: the names, sorted by their key.
list_available_ports(present) ==
    CHOOSE s \in [1..Cardinality(present) -> present] :
        \A i, j \in 1..Cardinality(present) :
            i < j => PortNumber[s[i]] < PortNumber[s[j]]

\* BluetoothApi._get_initial_port
get_initial_port(present) ==
    IF PORT \in present THEN PORT
    ELSE IF present # {} THEN list_available_ports(present)[1]
    ELSE ""

\* A serial.Serial object opened on a port; the name of the port takes no
\* part in what follows.
Serial(port) == [is_open |-> TRUE]

\* An operation made on the transport: "open", "close", "in_waiting", "read"
\* or "write", on a serial.Serial object (None: no object came of it).
Op(op, on) == [op |-> op, on |-> on]

\* BluetoothApi.connected
Connected(b, ss) == b # None /\ ss[b].is_open
connected == Connected(bluetooth, serials)

Bool(b) == IF b THEN "True" ELSE "False"

\* The messages the application sends.
SendMessages ==
    {from_message(t, p, None) :
        t \in {START}, p \in {<<>>}}
    \cup {from_message(t, p, None) :
        t \in {PID_KD}, p \in {<<170, 10>>}}

\* What read(3) returns to the liveness probe.
EchoReplies == {<<>>, <<170, 1>>, <<170, 1, 1>>, <<170, 1, 0>>, <<170, 2, 2>>}

\* What the robot's side sends over an open connection.
LinkChunks == {<<170, 4, 1, 5>>}

\* Malformed frames: a STATE frame and an OPERATION_DATA frame whose checksum
\* byte is wrong, and frames of an unknown type.
MalformedChunks ==
    {<<170, 4, 2, 5>>, <<170, 30, 0, 0, 1, 0, 0, 0, 0, 0, 30>>,
     <<170, 200, 200>>, <<170, 31, 0>>}

InitLink ==
    /\ ports \in SUBSET PortNames
    /\ bluetooth = None
    /\ serials = <<>>
    /\ com_port = get_initial_port(ports)
    /\ last_receive_time = 0
    /\ now = StartTime
    /\ call = NoCall
    /\ written = <<>>
    /\ signals = <<>>
    /\ observed = <<>>
    /\ parser = NewParser
    /\ events = <<>>
    /\ progress = NoProgress
    /\ ThreadsIdle
    /\ CodecIdle
    /\ StreamIdle
    /\ AppIdle

Written(data, m) == [data |-> data, msg |-> m]

\* serial.Serial.close on the object the manager holds.
Close == [serials EXCEPT ![bluetooth].is_open = FALSE]

\* Mutant: a failed open leaves the reference as it was.
ConnectSerialKeepsReference(opened) ==
    /\ opened => com_port \in ports /\ Len(serials) < MaxHandles
    /\ IF opened
       THEN /\ serials' = Append(serials, Serial(com_port))
            /\ bluetooth' = Len(serials) + 1
            /\ signals' = <<"connection_change">>
            /\ observed' = <<TRUE>>
            /\ rx' = <<>>
       ELSE /\ signals' = <<"connection_failed">>
            /\ observed' = <<connected>>
            /\ UNCHANGED <<serials, bluetooth, rx>>
    /\ call' = Call("connect_serial", "", Bool(Connected(bluetooth', serials')),
                    <<Op("open", IF opened THEN Len(serials) + 1 ELSE None)>>,
                    IF opened THEN "" ELSE "open", <<>>)
    /\ written' = <<>>
    /\ UNCHANGED <<com_port, last_receive_time, ports, now, parser, events,
                   sent, progress, codecVars, threadVars, appVars>>

\* Mutant: a new connection begins with a new stream parser.
ConnectSerialNewParser(opened) ==
    /\ opened => com_port \in ports /\ Len(serials) < MaxHandles
    /\ IF opened
       THEN /\ serials' = Append(serials, Serial(com_port))
            /\ bluetooth' = Len(serials) + 1
            /\ signals' = <<"connection_change">>
            /\ observed' = <<TRUE>>
       ELSE /\ serials' = serials
            /\ bluetooth' = None
            /\ signals' = <<"connection_failed">>
            /\ observed' = <<FALSE>>
    /\ call' = Call("connect_serial", "", Bool(Connected(bluetooth', serials')),
                    <<Op("open", IF opened THEN Len(serials) + 1 ELSE None)>>,
                    IF opened THEN "" ELSE "open", <<>>)
    /\ written' = <<>>
    /\ rx' = <<>>
    /\ parser' = NewParser
    /\ UNCHANGED <<com_port, last_receive_time, ports, now, events,
                   sent, progress, codecVars, threadVars, appVars>>

\* Mutant: opening a connection counts as a receive.
ConnectSerialStampsTime(opened) ==
    /\ opened => com_port \in ports /\ Len(serials) < MaxHandles
    /\ IF opened
       THEN /\ serials' = Append(serials, Serial(com_port))
            /\ bluetooth' = Len(serials) + 1
            /\ signals' = <<"connection_change">>
            /\ observed' = <<TRUE>>
            /\ last_receive_time' = now
       ELSE /\ serials' = serials
            /\ bluetooth' = None
            /\ signals' = <<"connection_failed">>
            /\ observed' = <<FALSE>>
            /\ UNCHANGED last_receive_time
    /\ call' = Call("connect_serial", "", Bool(Connected(bluetooth', serials')),
                    <<Op("open", IF opened THEN Len(serials) + 1 ELSE None)>>,
                    IF opened THEN "" ELSE "open", <<>>)
    /\ written' = <<>>
    /\ rx' = <<>>
    /\ UNCHANGED <<com_port, ports, now, parser, events,
                   sent, progress, codecVars, threadVars, appVars>>

\* BluetoothApi.connect_serial: serial.Serial(...) returns an open port
\* (opened) or raises SerialException.
connect_serial(opened) ==
    /\ opened => com_port \in ports /\ Len(serials) < MaxHandles
    /\ IF opened
       THEN /\ serials' = Append(serials, Serial(com_port))
            /\ bluetooth' = Len(serials) + 1
            /\ signals' = <<"connection_change">>
            /\ observed' = <<TRUE>>
       ELSE /\ serials' = serials
            /\ bluetooth' = None
            /\ signals' = <<"connection_failed">>
            /\ observed' = <<FALSE>>
    /\ call' = Call("connect_serial", "", Bool(Connected(bluetooth', serials')),
                    <<Op("open", IF opened THEN Len(serials) + 1 ELSE None)>>,
                    IF opened THEN "" ELSE "open", <<>>)
    /\ written' = <<>>
    /\ rx' = <<>>
    /\ UNCHANGED <<com_port, last_receive_time, ports, now, parser, events,
                   sent, progress, codecVars, threadVars, appVars>>

\* The body of BluetoothApi.disconnect_serial.
Disconnect ==
    /\ serials' = IF connected THEN Close ELSE serials
    /\ bluetooth' = None
    /\ rx' = <<>>

\* Mutant: connection_change is emitted only when a port was closed.
DisconnectSerialQuiet ==
    /\ Disconnect
    /\ signals' = IF connected THEN <<"connection_change">> ELSE <<>>
    /\ observed' = IF connected THEN <<FALSE>> ELSE <<>>
    /\ call' = Call("disconnect_serial", "", "None",
                    IF connected THEN <<Op("close", bluetooth)>> ELSE <<>>,
                    "", <<>>)
    /\ written' = <<>>
    /\ UNCHANGED <<com_port, last_receive_time, ports, now, parser, events,
                   sent, progress, codecVars, threadVars, appVars>>

\* BluetoothApi.disconnect_serial
disconnect_serial ==
    /\ Disconnect
    /\ signals' = <<"connection_change">>
    /\ observed' = <<FALSE>>
    /\ call' = Call("disconnect_serial", "", "None",
                    IF connected THEN <<Op("close", bluetooth)>> ELSE <<>>,
                    "", <<>>)
    /\ written' = <<>>
    /\ UNCHANGED <<com_port, last_receive_time, ports, now, parser, events,
                   sent, progress, codecVars, threadVars, appVars>>

\* Mutant: the port is set while connected.
SetComPortWhileConnected(name) ==
    /\ IF name = com_port \/ name \notin ports THEN
           /\ call' = Call("set_com_port", name, "False", <<>>, "", <<>>)
           /\ UNCHANGED com_port
       ELSE
           /\ com_port' = name
           /\ call' = Call("set_com_port", name, "True", <<>>, "", <<>>)
    /\ written' = <<>>
    /\ signals' = <<>>
    /\ observed' = <<>>
    /\ UNCHANGED <<bluetooth, serials, last_receive_time, ports, now, parser,
                   events, rx, sent, progress, codecVars, threadVars, appVars>>

\* BluetoothApi.set_com_port
set_com_port(name) ==
    /\ IF name = com_port THEN
           /\ call' = Call("set_com_port", name, "False", <<>>, "", <<>>)
           /\ UNCHANGED com_port
       ELSE IF connected THEN
           /\ call' = Call("set_com_port", name, "False", <<>>, "", <<>>)
           /\ UNCHANGED com_port
       ELSE IF name \notin ports THEN
           /\ call' = Call("set_com_port", name, "False", <<>>, "", <<>>)
           /\ UNCHANGED com_port
       ELSE
           /\ com_port' = name
           /\ call' = Call("set_com_port", name, "True", <<>>, "", <<>>)
    /\ written' = <<>>
    /\ signals' = <<>>
    /\ observed' = <<>>
    /\ UNCHANGED <<bluetooth, serials, last_receive_time, ports, now, parser,
                   events, rx, sent, progress, codecVars, threadVars, appVars>>

\* A call that returns normally, nothing emitted.
Returns(name, ops, echo) ==
    /\ call' = Call(name, "", "None", ops, "", echo)
    /\ signals' = <<>>
    /\ observed' = <<>>
    /\ UNCHANGED <<bluetooth, serials>>

\* Mutant: the handler emits connection_failed and keeps the port.
FailsConnected(name, ops, raised, echo) ==
    /\ call' = Call(name, "", "None", ops, raised, echo)
    /\ signals' = <<"connection_failed">>
    /\ observed' = <<connected>>
    /\ UNCHANGED <<bluetooth, serials, rx>>

\* Mutant: the handler emits connection_failed, then disconnects.
FailsBeforeDisconnect(name, ops, raised, echo) ==
    /\ call' = Call(name, "", "None",
                    IF connected THEN Append(ops, Op("close", bluetooth)) ELSE ops,
                    raised, echo)
    /\ Disconnect
    /\ signals' = <<"connection_failed", "connection_change">>
    /\ observed' = <<connected, FALSE>>

\* The handler of SerialException in read_data and write_data:
\* disconnect_serial(), then connection_failed.emit(msg).
Fails(name, ops, raised, echo) ==
    /\ call' = Call(name, "", "None",
                    IF connected THEN Append(ops, Op("close", bluetooth)) ELSE ops,
                    raised, echo)
    /\ Disconnect
    /\ signals' = <<"connection_change", "connection_failed">>
    /\ observed' = <<FALSE, FALSE>>

\* Mutant: a failed write is ignored.
WriteDataIgnoresFailure(data, m, ok) ==
    /\ IF ~connected THEN
           /\ Returns("write_data", <<>>, <<>>)
           /\ written' = <<>>
       ELSE
           /\ call' = Call("write_data", "", "None", <<Op("write", bluetooth)>>,
                           IF ok THEN "" ELSE "write", <<>>)
           /\ signals' = <<>>
           /\ observed' = <<>>
           /\ written' = <<Written(data, m)>>
           /\ UNCHANGED <<bluetooth, serials>>
    /\ UNCHANGED <<rx, com_port, last_receive_time, ports, now, parser, events,
                   sent, progress, codecVars, threadVars, appVars>>

\* BluetoothApi.write_data(data), data made from the message m.  The port's
\* write returns (ok) or raises SerialException.
write_data(data, m, ok) ==
    /\ IF ~connected THEN
           /\ Returns("write_data", <<>>, <<>>)
           /\ written' = <<>>
           /\ UNCHANGED rx
       ELSE IF ok THEN
           /\ Returns("write_data", <<Op("write", bluetooth)>>, <<>>)
           /\ written' = <<Written(data, m)>>
           /\ UNCHANGED rx
       ELSE
           /\ Fails("write_data", <<Op("write", bluetooth)>>, "write", <<>>)
           /\ written' = <<Written(data, m)>>
    /\ UNCHANGED <<com_port, last_receive_time, ports, now, parser, events,
                   sent, progress, codecVars, threadVars, appVars>>

\* LineFollower.send_message
send_message(m, ok) == write_data(frame(m), m, ok)

\* Mutant: the port is not looked for.
PortNeverVanished(port, present) == FALSE

\* BluetoothApi._check_current_port: the configured port is not enumerated.
port_vanished(port, present) == port \notin present

\* Mutant: the probe is sent from PING_TIMEOUT on, not after it.
TimedOutFromThreshold(t, last) == ~(t - last < PING_TIMEOUT)

\* BluetoothApi._check_timeout: the last receive is older than PING_TIMEOUT.
timed_out(t, last) == ~(t - last <= PING_TIMEOUT)

\* Mutant: the bytes read as the echo are fed to the stream parser.
AfterPingResponseFed(p, reply) == FeedAll(p, <<>>, reply).parser

\* The stream parser after _wait_for_ping_response read reply: the bytes go
\* to SerialMessage.from_frame, self._parser takes no part.
after_ping_response(p, reply) == p

\* The transport operations that can raise SerialException in read_data.
ReadFaults == {"none", "in_waiting", "write", "read"}

\* The last frame given to LineFollower, with what its handling did.
Delivered(outcome, m) == [outcome |-> outcome, message |-> m]

\* BluetoothApi._on_frame for every frame the parser emitted, in order:
\* serial_output.emit(message), to which _handle_serial_message is connected.
\* A frame is handled on the fields the frames before it left.
RECURSIVE on_frame(_, _)
on_frame(last, emitted) ==
    IF emitted = <<>> THEN last
    ELSE IF Head(emitted).kind # "frame" THEN on_frame(last, Tail(emitted))
    ELSE on_frame(Delivered(Handling(last.outcome.store, last.outcome.mapper,
                                     Head(emitted).msg),
                            Head(emitted).msg),
                  Tail(emitted))

\* A call of read_data that gave no frame to LineFollower.
NothingHandled == UNCHANGED appVars

\* BluetoothApi.read_data, one iteration of the worker's loop, with
\* _check_timeout, _check_current_port, _ping_robot, _send_ping and
\* _wait_for_ping_response.  fault is the transport operation that raises
\* SerialException in this call, reply what read(3) returns to the probe.
read_data(fault, reply) ==
    LET ping_msg == from_message(PING, <<>>, None)
        avail == <<Op("in_waiting", bluetooth)>>
        wrote == Append(avail, Op("write", bluetooth))
        echoed == Append(wrote, Op("read", bluetooth))
        fed == FeedAll(parser, <<>>, rx)
        given_on == on_frame(Delivered(Outcome(store, mapper, <<>>, <<>>, FALSE), NoMessage),
                             fed.emit)
    IN
    /\ IF ~connected THEN
           /\ Returns("read_data", <<>>, <<>>)
           /\ written' = <<>>
           /\ NothingHandled
           /\ UNCHANGED <<rx, com_port, last_receive_time, parser, events>>
       ELSE IF fault = "in_waiting" THEN
           /\ Fails("read_data", avail, "in_waiting", <<>>)
           /\ written' = <<>>
           /\ NothingHandled
           /\ UNCHANGED <<com_port, last_receive_time, parser, events>>
       ELSE IF Len(rx) <= 0 THEN
           IF port_vanished(com_port, ports) THEN
               /\ com_port' = get_initial_port(ports)
               /\ Fails("read_data", avail, "port", <<>>)
               /\ written' = <<>>
               /\ NothingHandled
               /\ UNCHANGED <<last_receive_time, parser, events>>
           ELSE IF ~timed_out(now, last_receive_time) THEN
               /\ Returns("read_data", avail, <<>>)
               /\ written' = <<>>
               /\ NothingHandled
               /\ UNCHANGED <<rx, com_port, last_receive_time, parser, events>>
           ELSE
               /\ written' = <<Written(frame(ping_msg), ping_msg)>>
               /\ IF fault = "write" THEN
                      /\ Fails("read_data", wrote, "write", <<>>)
                      /\ UNCHANGED last_receive_time
                  ELSE IF fault = "read" THEN
                      /\ Fails("read_data", echoed, "read", <<>>)
                      /\ UNCHANGED last_receive_time
                  ELSE IF from_frame(reply).message # PING THEN
                      /\ Fails("read_data", echoed, "echo", reply)
                      /\ UNCHANGED last_receive_time
                  ELSE
                      /\ Returns("read_data", echoed, reply)
                      /\ last_receive_time' = now
                      /\ UNCHANGED rx
               /\ parser' = IF fault \in {"write", "read"} THEN parser
                             ELSE after_ping_response(parser, reply)
               /\ NothingHandled
               /\ UNCHANGED <<com_port, events>>
       ELSE
           /\ last_receive_time' = now
           /\ written' = <<>>
           /\ IF fault = "read" THEN
                  /\ Fails("read_data", Append(avail, Op("read", bluetooth)), "read", <<>>)
                  /\ NothingHandled
                  /\ UNCHANGED <<parser, events>>
              ELSE
                  /\ Returns("read_data", Append(avail, Op("read", bluetooth)), <<>>)
                  /\ rx' = <<>>
                  /\ parser' = fed.parser
                  /\ events' = fed.emit
                  /\ handled' = Handled(given_on.message, given_on.outcome.raised)
                  /\ store' = given_on.outcome.store
                  /\ mapper' = given_on.outcome.mapper
                  /\ notified' = given_on.outcome.notified
                  /\ appended' = given_on.outcome.appended
           /\ UNCHANGED com_port
    /\ UNCHANGED <<ports, now, sent, progress, codecVars, threadVars>>

\* Time passes.
Tick(t) ==
    /\ now < t
    /\ now' = t
    /\ UNCHANGED <<bluetooth, serials, com_port, last_receive_time, ports, call,
                   written, signals, observed, parser, events, rx, sent, progress, codecVars, threadVars, appVars>>

\* A serial port appears in the system or disappears from it.
Replug(name) ==
    /\ ports' = IF name \in ports THEN ports \ {name} ELSE ports \cup {name}
    /\ UNCHANGED <<bluetooth, serials, com_port, last_receive_time, now, call,
                   written, signals, observed, parser, events, rx, sent, progress, codecVars, threadVars, appVars>>

\* Bytes of the robot's side arrive at the open port.
Receive(c) ==
    /\ connected
    /\ rx = <<>>
    /\ rx' = c
    /\ UNCHANGED <<bluetooth, serials, com_port, last_receive_time, ports, now,
                   call, written, signals, observed, parser, events, sent, progress,
                   codecVars, threadVars, appVars>>

NextLink ==
    \/ \E opened \in BOOLEAN : connect_serial(opened)
    \/ disconnect_serial
    \/ \E name \in PortNames \cup {AbsentPort} : set_com_port(name)
    \/ \E m \in SendMessages, ok \in BOOLEAN : send_message(m, ok)
    \/ \E fault \in ReadFaults, reply \in EchoReplies : read_data(fault, reply)
    \/ \E t \in Times : Tick(t)
    \/ \E name \in PortNames : Replug(name)
    \/ \E c \in LinkChunks : Receive(c)

SpecLink == InitLink /\ [][NextLink]_vars

\* An open connection on which the robot's side sends frames, well formed
\* and malformed, read by read_data until it fails.
InitReceive ==
    /\ ports = {PORT}
    /\ com_port = PORT
    /\ serials = <<Serial(PORT)>>
    /\ bluetooth = 1
    /\ now = StartTime
    /\ last_receive_time = 0
    /\ rx = <<>>
    /\ call = NoCall
    /\ written = <<>>
    /\ signals = <<>>
    /\ observed = <<>>
    /\ ThreadsIdle
    /\ parser = NewParser
    /\ events = <<>>
    /\ progress = NoProgress
    /\ sent = <<>>
    /\ CodecIdle
    /\ AppIdle

NextReceive ==
    \/ \E fault \in ReadFaults, reply \in EchoReplies : read_data(fault, reply)
    \/ \E t \in Times : Tick(t)
    \/ \E c \in LinkChunks \cup MalformedChunks : Receive(c)

SpecReceive == InitReceive /\ [][NextReceive]_vars

\* The wire frame of a message: 0xAA, the type id, the payload, the checksum.
WireFrameOf(m) == WireFrame(m.message, m.payload, WireChecksum(m.message, m.payload))

\* C3: every byte string handed to the transport, by send(message) and by the
\* liveness probe, is the complete wire frame 0xAA, type id, payload,
\* checksum of its message, which from_frame decodes back to that message
\* (for the PING: the 3 byte frame that is also the echo expected).
C3_WritesWireFrames ==
    \A i \in DOMAIN written :
        /\ written[i].data = WireFrameOf(written[i].msg)
        /\ from_frame(written[i].data) = written[i].msg


\* A step that is a call of the manager's method name: the steps of the
\* clock, of the ports and of the robot's side change now, ports and rx.
IsCall(name) ==
    /\ call'.name = name
    /\ now' = now
    /\ ports' = ports
    /\ ~(rx = <<>> /\ rx' # <<>>)

\* An iteration of the read loop on an open connection with no byte pending.
IdleIteration == IsCall("read_data") /\ connected /\ Len(rx) = 0

\* The 3 byte echo of a PING.
PingEcho == WireFrame(PING, <<>>, WireChecksum(PING, <<>>))

C11_Step ==
    IdleIteration =>
        /\ now - last_receive_time <= PING_TIMEOUT => written' = <<>>
        /\ (/\ now - last_receive_time > PING_TIMEOUT
            /\ com_port \in ports
            /\ call'.raised # "in_waiting")
           => /\ Len(written') = 1
              /\ written'[1].msg.message = PING
              /\ IF call'.raised \notin {"write", "read"} /\ call'.echo = PingEcho
                 THEN /\ Connected(bluetooth', serials')
                      /\ last_receive_time' = now
                      /\ signals' = <<>>
                 ELSE /\ ~Connected(bluetooth', serials')
                      /\ \E i \in DOMAIN signals' : signals'[i] = "connection_failed"

Emitted(signal) == \E i \in DOMAIN signals : signals[i] = signal

\* A call of read_data or write_data in which a transport operation raised.
FatalError ==
    /\ IsCall("read_data") \/ IsCall("write_data")
    /\ call'.raised # ""

C12_Step ==
    /\ FatalError => ~Connected(bluetooth', serials') /\ Emitted("connection_failed")'
    /\ ~connected /\ ~IsCall("connect_serial") => ~Connected(bluetooth', serials')
    /\ ~connected /\ IsCall("read_data") => call'.ops = <<>> /\ written' = <<>>

\* C12: after a read failure, a write failure, a failed ping or a vanished
\* port the manager is disconnected and connection_failed has been emitted;
\* a disconnected manager stays disconnected in every step but a call of
\* connect_serial, and read_data called on it makes no operation on the
\* transport.
C12_NoAutomaticRetry == [][C12_Step]_vars

\* The probe read something else than the echo: the manager has
\* disconnected and emitted connection_failed.
C12_Witness ==
    /\ call.name = "read_data" /\ call.raised = "echo"
    /\ ~connected
    /\ Emitted("connection_failed")


\* C14: after connect_serial, when the opening of the port failed the call
\* has returned False, connection_failed was emitted (alone) and the manager
\* is disconnected; when it succeeded the call has returned True,
\* connection_change was emitted (alone) and the manager is connected.
C14_Connect ==
    call.name = "connect_serial" =>
        IF call.raised = "open"
        THEN call.ret = "False" /\ signals = <<"connection_failed">> /\ ~connected
        ELSE call.ret = "True" /\ signals = <<"connection_change">> /\ connected

\* A failed connect_serial on a manager that held an open port.
C14_Witness ==
    /\ call.name = "connect_serial" /\ call.raised = "open"
    /\ serials # <<>>
    /\ ~connected

\* The fields of the manager, with the objects they hold.
apiVars == <<bluetooth, serials, com_port, last_receive_time, parser>>

C15_Step ==
    IsCall("disconnect_serial") =>
        /\ bluetooth' = None
        /\ ~Connected(bluetooth', serials')
        /\ signals' = <<"connection_change">>
        /\ IF connected
           THEN /\ call'.ops = <<Op("close", bluetooth)>>
                /\ serials' = [serials EXCEPT ![bluetooth].is_open = FALSE]
           ELSE /\ call'.ops = <<>>
                /\ serials' = serials
        /\ UNCHANGED <<com_port, last_receive_time, parser>>

\* C15: disconnect_serial, called in any state, leaves the manager without a
\* port object, closes the port exactly when it was open and emits
\* connection_change once; called again right after, it changes nothing: no
\* step of it leads from the state it left to another state of the manager.
C15_DisconnectIdempotent ==
    /\ [][C15_Step]_vars
    /\ [](call.name = "disconnect_serial" => ~ENABLED <<disconnect_serial>>_apiVars)

\* disconnect_serial was called on a manager that held no port.
C15_Witness ==
    /\ call.name = "disconnect_serial" /\ call.ops = <<>>
    /\ bluetooth = None
    /\ signals = <<"connection_change">>

\* C16: at most one serial.Serial object is open, and it is the one the
\* manager references.
C16_OneTransport ==
    \A i \in DOMAIN serials : serials[i].is_open => bluetooth = i

C17_Refused(name) == connected \/ name \notin ports

C17_StepClaimed ==
    IsCall("set_com_port") =>
        IF C17_Refused(call'.arg)
        THEN call'.ret = "False" /\ com_port' = com_port
        ELSE call'.ret = "True" /\ com_port' = call'.arg

\* C17, as claimed: set_com_port(name) returns False and leaves the port
\* unchanged when the manager is connected or name is not enumerated; in
\* every other case it returns True and the port becomes name.
C17_SetPortClaimed == [][C17_StepClaimed]_vars

C17_Step ==
    IsCall("set_com_port") =>
        IF C17_Refused(call'.arg) \/ call'.arg = com_port
        THEN call'.ret = "False" /\ com_port' = com_port
        ELSE call'.ret = "True" /\ com_port' = call'.arg

\* C17: set_com_port(name) returns False and leaves the port unchanged when
\* the manager is connected, name is not enumerated or name is the port
\* already configured; in every other case it returns True and the port
\* becomes name.
C17_SetPort == [][C17_Step]_vars

\* set_com_port was called with the configured port, enumerated, on a
\* disconnected manager, and returned False.
C17_Witness ==
    /\ call.name = "set_com_port" /\ call.arg = com_port /\ call.ret = "False"
    /\ ~connected
    /\ com_port \in ports

C18_Step ==
    IsCall("write_data") =>
        /\ ~connected =>
              /\ call'.ops = <<>> /\ written' = <<>>
              /\ signals' = <<>>
              /\ UNCHANGED <<bluetooth, serials, com_port, last_receive_time,
                             parser, rx>>
        /\ connected /\ call'.raised = "write" =>
              /\ ~Connected(bluetooth', serials')
              /\ Emitted("connection_failed")'

\* C18: write_data on a disconnected manager makes no operation on a port,
\* emits nothing and changes nothing; on a connected one, when the port's
\* write fails, the manager ends disconnected and connection_failed is
\* emitted.
C18_Write == [][C18_Step]_vars

\* A write failed on an open port.
C18_Witness ==
    /\ call.name = "write_data" /\ call.raised = "write"
    /\ Len(written) = 1
    /\ ~connected
    /\ signals = <<"connection_change", "connection_failed">>

C19_Step ==
    IdleIteration /\ com_port \notin ports =>
        /\ ~Connected(bluetooth', serials')
        /\ Emitted("connection_failed")'
        /\ written' = <<>>

\* C19: in a read-loop iteration with no bytes pending, when the configured
\* port is not enumerated any more, the manager disconnects and emits
\* connection_failed and writes no PING, however recent the last receive.
C19_VanishedPort == [][C19_Step]_vars

\* The port had vanished PING_TIMEOUT or less after the last receive.
C19_Witness ==
    /\ call.name = "read_data" /\ call.raised = "port"
    /\ last_receive_time > 0
    /\ now - last_receive_time <= PING_TIMEOUT
    /\ ~connected
    /\ written = <<>>

(***************************************************************************)
(* The worker thread in read_data (BluetoothListenerWorker.run) and the    *)
(* caller's thread in disconnect_serial or write_data, on an open          *)
(* connection.  A step of a thread is one use of self._bluetooth: the      *)
(* threads interleave between two of them.  The port does not fail here:   *)
(* what raises is the port check, the echo check, an operation on a closed *)
(* port (SerialException) and an attribute of None (AttributeError).       *)
(***************************************************************************)
\* The caller makes up to MaxCalls calls.
MaxCalls == 2

CallerOps == {"disconnect_serial", "write_data"}

InitRace ==
    /\ ports \in {{PORT}, {}}
    /\ com_port = PORT
    /\ serials = <<Serial(PORT)>>
    /\ bluetooth = 1
    /\ now = StartTime
    /\ last_receive_time \in {0, StartTime}
    /\ rx \in {<<>>} \cup LinkChunks
    /\ call = NoCall
    /\ written = <<>>
    /\ signals = <<>>
    /\ observed = <<>>
    /\ ThreadsIdle
    /\ parser = NewParser
    /\ events = <<>>
    /\ progress = NoProgress
    /\ sent = <<>>
    /\ CodecIdle
    /\ AppIdle

raceRest == <<ports, now, call, sent, progress, codecVars, listener>>

Goto(pc) == worker' = [worker EXCEPT !.pc = pc]

\* An exception that read_data does not handle ends the worker's loop.
Escapes(e) == worker' = [worker EXCEPT !.pc = "dead", !.escaped = e]

\* An operation on a closed port raises SerialException.
OnClosed(op) ==
    worker' = [worker EXCEPT !.pc = "handler", !.on_closed = @ \cup {op}]

\* read_data, line 153: self.connected, "self._bluetooth is not None".
read_data_connected ==
    /\ worker.pc = "idle"
    /\ IF bluetooth = None THEN Goto("idle") ELSE Goto("is_open")
    /\ UNCHANGED <<bluetooth, serials, rx, parser, events, last_receive_time,
                   com_port, written, signals, observed, caller, raceRest, appVars>>

\* read_data, line 153: self.connected, "self._bluetooth.is_open".
read_data_is_open ==
    /\ worker.pc = "is_open"
    /\ IF bluetooth = None THEN Escapes("AttributeError")
       ELSE IF ~serials[bluetooth].is_open THEN Goto("idle")
       ELSE Goto("in_waiting")
    /\ UNCHANGED <<bluetooth, serials, rx, parser, events, last_receive_time,
                   com_port, written, signals, observed, caller, raceRest, appVars>>

\* read_data, line 157: self._bluetooth.in_waiting <= 0.
read_data_in_waiting ==
    /\ worker.pc = "in_waiting"
    /\ IF bluetooth = None THEN Escapes("AttributeError")
       ELSE IF ~serials[bluetooth].is_open THEN OnClosed("in_waiting")
       ELSE IF Len(rx) <= 0 THEN Goto("check_timeout")
       ELSE Goto("read")
    /\ UNCHANGED <<bluetooth, serials, rx, parser, events, last_receive_time,
                   com_port, written, signals, observed, caller, raceRest, appVars>>

\* read_data, lines 161 to 164.
read_data_read ==
    /\ worker.pc = "read"
    /\ last_receive_time' = now
    /\ IF bluetooth = None THEN
           /\ Escapes("AttributeError")
           /\ UNCHANGED <<rx, parser, events, appVars>>
       ELSE IF ~serials[bluetooth].is_open THEN
           /\ OnClosed("read")
           /\ UNCHANGED <<rx, parser, events, appVars>>
       ELSE
           LET fed == FeedAll(parser, <<>>, rx)
               given_on == on_frame(Delivered(Outcome(store, mapper, <<>>, <<>>, FALSE),
                                              NoMessage),
                                    fed.emit)
           IN  /\ Goto("idle")
               /\ rx' = <<>>
               /\ parser' = fed.parser
               /\ events' = fed.emit
               /\ handled' = Handled(given_on.message, given_on.outcome.raised)
               /\ store' = given_on.outcome.store
               /\ mapper' = given_on.outcome.mapper
               /\ notified' = given_on.outcome.notified
               /\ appended' = given_on.outcome.appended
    /\ UNCHANGED <<bluetooth, serials, com_port, written, signals, observed, caller, raceRest>>

\* _check_timeout and _check_current_port.
check_timeout ==
    /\ worker.pc = "check_timeout"
    /\ IF port_vanished(com_port, ports) THEN
           /\ com_port' = get_initial_port(ports)
           /\ Goto("handler")
       ELSE
           /\ IF ~timed_out(now, last_receive_time) THEN Goto("idle")
              ELSE Goto("send_ping")
           /\ UNCHANGED com_port
    /\ UNCHANGED <<bluetooth, serials, rx, parser, events, last_receive_time,
                   written, signals, observed, caller, raceRest, appVars>>

\* _send_ping
send_ping ==
    LET ping_msg == from_message(PING, <<>>, None)
    IN
    /\ worker.pc = "send_ping"
    /\ IF bluetooth = None THEN
           /\ Escapes("AttributeError")
           /\ UNCHANGED written
       ELSE IF ~serials[bluetooth].is_open THEN
           /\ OnClosed("write")
           /\ UNCHANGED written
       ELSE
           /\ Goto("wait_for_ping_response")
           /\ written' = <<Written(frame(ping_msg), ping_msg)>>
    /\ UNCHANGED <<bluetooth, serials, rx, parser, events, last_receive_time,
                   com_port, signals, observed, caller, raceRest, appVars>>

\* _wait_for_ping_response
wait_for_ping_response(reply) ==
    /\ worker.pc = "wait_for_ping_response"
    /\ IF bluetooth = None THEN
           /\ Escapes("AttributeError")
           /\ UNCHANGED last_receive_time
       ELSE IF ~serials[bluetooth].is_open THEN
           /\ OnClosed("read")
           /\ UNCHANGED last_receive_time
       ELSE IF from_frame(reply).message # PING THEN
           /\ Goto("handler")
           /\ UNCHANGED last_receive_time
       ELSE
           /\ Goto("idle")
           /\ last_receive_time' = now
    /\ UNCHANGED <<bluetooth, serials, rx, parser, events, com_port, written,
                   signals, observed, caller, raceRest, appVars>>

\* read_data, line 169: disconnect_serial(), "if self.connected".
handler_connected ==
    /\ worker.pc = "handler"
    /\ IF connected THEN Goto("handler_close") ELSE Goto("handler_clear")
    /\ UNCHANGED <<bluetooth, serials, rx, parser, events, last_receive_time,
                   com_port, written, signals, observed, caller, raceRest, appVars>>

\* disconnect_serial, line 143: self._bluetooth.close().
handler_close ==
    /\ worker.pc = "handler_close"
    /\ IF bluetooth = None THEN
           /\ Escapes("AttributeError")
           /\ UNCHANGED <<serials, rx>>
       ELSE
           /\ worker' = [worker EXCEPT
                  !.pc = "handler_clear",
                  !.on_closed = IF serials[bluetooth].is_open THEN @
                                ELSE @ \cup {"close"}]
           /\ serials' = Close
           /\ rx' = <<>>
    /\ UNCHANGED <<bluetooth, parser, events, last_receive_time, com_port,
                   written, signals, observed, caller, raceRest, appVars>>

\* disconnect_serial, lines 144 to 147, and read_data, line 170.
handler_clear ==
    /\ worker.pc = "handler_clear"
    /\ Goto("idle")
    /\ bluetooth' = None
    /\ signals' = <<"connection_change", "connection_failed">>
    /\ observed' = <<FALSE, FALSE>>
    /\ UNCHANGED <<serials, rx, parser, events, last_receive_time, com_port,
                   written, caller, raceRest, appVars>>

\* The caller's thread calls disconnect_serial or write_data: self.connected.
caller_connected(op) ==
    /\ caller.pc = "idle"
    /\ caller.calls < MaxCalls
    /\ caller' = IF op = "disconnect_serial"
                 THEN Caller(IF connected THEN "close" ELSE "clear", caller.calls)
                 ELSE IF connected THEN Caller("write", caller.calls)
                 ELSE Caller("idle", caller.calls + 1)
    /\ UNCHANGED <<bluetooth, serials, rx, parser, events, last_receive_time,
                   com_port, written, signals, observed, worker, raceRest, appVars>>

\* disconnect_serial, line 143, in the caller's thread.
caller_close ==
    /\ caller.pc = "close"
    /\ IF bluetooth = None THEN
           /\ caller' = Caller("dead", caller.calls)
           /\ UNCHANGED <<serials, rx>>
       ELSE
           /\ caller' = Caller("clear", caller.calls)
           /\ serials' = Close
           /\ rx' = <<>>
    /\ UNCHANGED <<bluetooth, parser, events, last_receive_time, com_port,
                   written, signals, observed, worker, raceRest, appVars>>

\* disconnect_serial, lines 144 to 147, in the caller's thread.
caller_clear ==
    /\ caller.pc = "clear"
    /\ caller' = Caller("idle", caller.calls + 1)
    /\ bluetooth' = None
    /\ signals' = <<"connection_change">>
    /\ observed' = <<FALSE>>
    /\ UNCHANGED <<serials, rx, parser, events, last_receive_time, com_port,
                   written, worker, raceRest, appVars>>

\* write_data, line 183, in the caller's thread; on a closed port it raises
\* SerialException and write_data disconnects.
caller_write(m) ==
    /\ caller.pc = "write"
    /\ IF bluetooth = None THEN
           /\ caller' = Caller("dead", caller.calls)
           /\ UNCHANGED <<bluetooth, written, signals, observed>>
       ELSE IF ~serials[bluetooth].is_open THEN
           /\ caller' = Caller("idle", caller.calls + 1)
           /\ bluetooth' = None
           /\ signals' = <<"connection_change", "connection_failed">>
           /\ observed' = <<FALSE, FALSE>>
           /\ UNCHANGED written
       ELSE
           /\ caller' = Caller("idle", caller.calls + 1)
           /\ written' = <<Written(frame(m), m)>>
           /\ UNCHANGED <<bluetooth, signals, observed>>
    /\ UNCHANGED <<serials, rx, parser, events, last_receive_time, com_port,
                   worker, raceRest, appVars>>

NextRace ==
    \/ read_data_connected
    \/ read_data_is_open
    \/ read_data_in_waiting
    \/ read_data_read
    \/ check_timeout
    \/ send_ping
    \/ \E reply \in EchoReplies : wait_for_ping_response(reply)
    \/ handler_connected
    \/ handler_close
    \/ handler_clear
    \/ \E op \in CallerOps : caller_connected(op)
    \/ caller_close
    \/ caller_clear
    \/ \E m \in SendMessages : caller_write(m)

SpecRace == InitRace /\ [][NextRace]_vars

\* C13: under every interleaving of the caller's disconnect_serial or
\* write_data with an iteration of the worker's read loop, the worker makes
\* no operation on a port that was closed or on the cleared reference, and no
\* error other than the SerialException it handles escapes read_data.
C13_WorkerSafe == worker.escaped = "" /\ worker.on_closed = {}


(***************************************************************************)
(* The state store: LineFollower._handle_serial_message and the updaters   *)
(* of its fields.                                                          *)
(***************************************************************************)
\* The frames of one behaviour update up to MaxStoreTypes objects: fields of
\* the store, or the mapper.
MaxStoreTypes == 2

StorePayloads(n) ==
    IF n = 0 THEN {<<>>}
    ELSE IF n = 1 THEN {<<0>>, <<1>>, <<7>>}
    ELSE IF n = 2 THEN {<<0, 0>>, <<0, 1>>}
    ELSE {[i \in 1..n |-> 0], [i \in 1..n |-> IF i = 3 THEN 1 ELSE 0]}

\* The frames the parser hands over: a message of any type, or INVALID.
\* The byte 7 is no member of an enum and is a true flag other than 1: it is
\* sent to the fields whose updater reads its value through a conversion.
Converted == {MSG_STATE, RUNNING_MODE, STOP_MODE, LOG_DATA}

StoreFrames ==
    {INVALID} \cup
    UNION {{from_message(t, p, None) :
                p \in {q \in StorePayloads(SizeOf(t)) :
                          q = <<7>> => t \in Converted}} :
              t \in SerialMessages \ {INVALID_MESSAGE}}

InitStore ==
    /\ AppIdle
    /\ parser = NewParser
    /\ events = <<>>
    /\ progress = NoProgress
    /\ CodecIdle
    /\ StreamIdle
    /\ LinkIdle

\* LineFollower._handle_serial_message, called with a frame.
handle_serial_message(m) ==
    LET r == Handling(store, mapper, m)
    IN  /\ Cardinality({t \in config_map : store[t] # NoValue}
                       \cup (IF mapper # NewMapper THEN {OPERATION_DATA} ELSE {})
                       \cup ({m.message} \cap (config_map \cup {OPERATION_DATA})))
               <= MaxStoreTypes
        /\ handled' = Handled(m, r.raised)
        /\ store' = r.store
        /\ mapper' = r.mapper
        /\ notified' = r.notified
        /\ appended' = r.appended
        /\ UNCHANGED <<codecVars, streamVars, linkVars, parser, events, progress>>

NextStore == \E m \in StoreFrames : handle_serial_message(m)

SpecStore == InitStore /\ [][NextStore]_vars

C20_Step ==
    LET t == handled'.message.message
        raw == int_from_bytes(handled'.message.payload)
        attrs == {i \in DOMAIN notified' : notified'[i].signal = "attr_changed"}
    IN  t \in config_map /\ ~handled'.raised =>
            /\ attrs # {} <=> store[t] # new_value(t, raw)
            /\ Cardinality(attrs) <= 1
            /\ \A i \in attrs : notified'[i] = Signal("attr_changed", t, raw)
            /\ store[t] = new_value(t, raw) => store' = store
            /\ store'[t] = new_value(t, raw)
            /\ \A u \in config_map \ {t} : store'[u] = store[u]

\* C20: a frame of a handled type T (whose value the updater accepts) emits
\* attr_changed(T, raw), once, exactly when its decoded value differs from
\* the value stored for T before the frame, None before the first frame for
\* T; a frame carrying the stored value leaves every field unchanged and
\* emits no attr_changed.
C20_Dedup == [][C20_Step]_vars

\* A LOG_DATA frame of raw value 7 that emitted nothing: False was stored
\* for it, by a frame of another raw value, and another field is set too.
C20_Witness ==
    /\ handled.message.message = LOG_DATA
    /\ handled.message.payload = <<7>>
    /\ notified = <<>>
    /\ store[LOG_DATA] = Value("bool", 0, 1)
    /\ \E u \in config_map \ {LOG_DATA} : store[u] # NoValue

\* The signals of one kind among those emitted.
Of(signal, emitted) == {i \in DOMAIN emitted : emitted[i].signal = signal}

C21_Step ==
    LET m == handled'.message
        states == Of("state_changed", notified')
    IN  m.message = MSG_STATE /\ m.payload[1] \in RobotStates =>
            /\ Cardinality(states) = 1
            /\ \A i \in states :
                   notified'[i] = Signal("state_changed", MSG_STATE, m.payload[1])
            /\ store'[MSG_STATE] = Value("RobotStates", m.payload[1], 1)
            /\ store[MSG_STATE] = Value("RobotStates", m.payload[1], 1) =>
                   /\ Of("attr_changed", notified') = {}
                   /\ store' = store

\* C21: every STATE frame that carries a state (a member of RobotStates)
\* emits state_changed with that state, once, whether or not it is the state
\* stored already; when it is, the updater reports no change: no
\* attr_changed is emitted and no field changes.
C21_StateChangedAlways == [][C21_Step]_vars

\* A STATE frame arrived with the state that was stored: state_changed was
\* emitted alone.
C21_Witness ==
    /\ handled.message = from_message(MSG_STATE, <<1>>, None)
    /\ notified = <<Signal("state_changed", MSG_STATE, 1)>>
    /\ store[MSG_STATE] = Value("RobotStates", 1, 1)

\* C22: the handling of a frame the parser emitted never raises, whatever
\* its type and its payload, the bytes of STATE, RUNNING_MODE and STOP_MODE
\* frames that are no members of their enumerations included.
C22_HandlerNeverRaises == ~handled.raised

C23_Step ==
    IsCall("read_data") /\ connected /\ rx \in MalformedChunks /\ call'.raised = "" =>
        /\ events' = <<FrameEvent(INVALID)>>
        /\ handled' = Handled(INVALID, FALSE)
        /\ store' = store
        /\ mapper' = mapper
        /\ notified' = <<>>
        /\ appended' = <<>>
        /\ signals' = <<>>
        /\ bluetooth' = bluetooth
        /\ serials' = serials

\* C23: a malformed frame (wrong checksum byte, unknown type) read from the
\* port reaches LineFollower as INVALID and is dropped: no field of the store
\* or of the mapper changes, no attr_changed and no state_changed is
\* emitted, no telemetry row is written, no connection_failed is emitted and
\* the connection stays open.
C23_MalformedDropped == [][C23_Step]_vars

\* A STATE frame with a wrong checksum byte was read and dropped, with a
\* state stored before it.
C23_Witness ==
    /\ call.name = "read_data"
    /\ events = <<FrameEvent(INVALID)>>
    /\ handled = Handled(INVALID, FALSE)
    /\ parser.payload = <<2>>
    /\ store[MSG_STATE] = Value("RobotStates", 1, 1)
    /\ connected

\* The rows among those appended that went to one file.
RowsOf(file, rows) == {i \in DOMAIN rows : rows[i].file = file}

C24_Step ==
    LET m == handled'.message
    IN  /\ m.message \in {PING, START, STOP, OPERATION_DATA} =>
               /\ store' = store
               /\ notified' = <<>>
               /\ ~handled'.raised
        /\ m.message \in {PING, START, STOP} =>
               /\ mapper' = mapper
               /\ appended' = <<>>
        /\ m.message = OPERATION_DATA =>
               /\ mapper'.operation_data = update(m.payload)
               /\ Cardinality(RowsOf("BINARY_FILE", appended')) = 1
               /\ Cardinality(RowsOf("SENSOR_DATA", appended')) = 1
               /\ \A i \in RowsOf("BINARY_FILE", appended') :
                      appended'[i].payload = m.payload
               /\ \A i \in RowsOf("SENSOR_DATA", appended') :
                      appended'[i].data = update(m.payload)

\* C24: a PING, START, STOP or OPERATION_DATA frame changes no field of the
\* store and emits neither attr_changed nor state_changed; PING, START and
\* STOP reach nothing else either, and an OPERATION_DATA frame is given to
\* the mapper once: its payload is decoded and appended once to the binary
\* file and once to the full-rate log.
C24_UnhandledIgnored == [][C24_Step]_vars

\* An OPERATION_DATA frame was handled with a field of the store set.
C24_Witness ==
    /\ handled.message.message = OPERATION_DATA
    /\ handled.message.payload[3] = 1
    /\ Len(appended) = 3
    /\ notified = <<>>
    /\ \E t \in config_map : store[t] # NoValue

C25_Step ==
    LET first == handled.message
        m == handled'.message
    IN  m.message = OPERATION_DATA =>
            /\ Cardinality(RowsOf("SENSOR_DATA", appended')) = 1
            /\ mapper = NewMapper =>
                   Cardinality(RowsOf("ENCODER_DATA", appended')) = 1
            /\ first.message = OPERATION_DATA
                   /\ Slice(first.payload, 2, 8) = Slice(m.payload, 2, 8) =>
                   Cardinality(RowsOf("ENCODER_DATA", appended')) = 0

\* C25: of two consecutive OPERATION_DATA frames with the same x, y and
\* heading given to a new Mapper, whatever their payload, each appends one
\* row to the full-rate log, the first appends one row to the gated log and
\* the second appends none.
C25_DualLogGating == [][C25_Step]_vars


(***************************************************************************)
(* The numeric helpers SerialMessage.from_int and from_float applied to    *)
(* one typed value, and the decoding of one frame: the message built, or   *)
(* the frame received, is given to LineFollower._handle_serial_message on  *)
(* a new store and a new mapper.                                           *)
(***************************************************************************)
\* The floats given to from_float for a type stored in hundredths are
\* 0.00, 0.01, ... up to MaxHundredths / 100.
MaxHundredths == 120

\* Mutant: the bytes are written most significant first.
RECURSIVE ToBytesBig(_, _)
ToBytesBig(value, length) ==
    IF length = 0 THEN <<>>
    ELSE Append(ToBytesBig(value \div 256, length - 1), value % 256)

\* value.to_bytes(length, byteorder="little"), of a value it can encode.
RECURSIVE to_bytes(_, _)
to_bytes(value, length) ==
    IF length = 0 THEN <<>>
    ELSE <<value % 256>> \o to_bytes(value \div 256, length - 1)

\* int.to_bytes raises OverflowError for a negative value and for one that
\* does not fit in length bytes (the values here are below 2^31: they fit in
\* 4 bytes and more).
overflows(value, length) == value < 0 \/ (length < 4 /\ value >= 256 ^ length)

\* SerialMessage.from_int
from_int(msg, value) ==
    LET expected_size == SizeOf(msg)
    IN  IF overflows(value, expected_size) THEN Raised
        ELSE from_message(msg, to_bytes(value, expected_size), None)

\* The integers k up to 200 for which the product of the float nearest to
\* k / 100 by 100, rounded to a float, is less than k (0.29 * 100 is
\* 28.999999999999996).
TruncatedHundredths == {29, 57, 58, 113, 114, 115, 116}

\* int(value * 100) for the float value nearest to num / den, with
\* 0 <= num / den <= 2: the product in binary floating point, truncated.
int_of_product(num, den) ==
    LET q == (num * 100) \div den
    IN  IF (num * 100) % den = 0 /\ q \in TruncatedHundredths THEN q - 1 ELSE q

\* SerialMessage.from_float of the float nearest to num / den
from_float(msg, num, den) ==
    LET value == int_of_product(num, den)
        expected_size == SizeOf(msg)
    IN  IF overflows(value, expected_size) THEN Raised
        ELSE from_message(msg, to_bytes(value, expected_size), None)

\* FLOAT_MESSAGES: the types whose field is a float.
FLOAT_MESSAGES == {BASE_SPEED, PID_ALPHA, SPEED_KI, WHEEL_BASE_CORRECTION, IMU_ALPHA}

\* The bytes of the payloads of frames of these types.
ScaledBytes == {0, 1, 48, 50, 57, 100, 255}

\* The bytes of telemetry payloads: the sensor bytes, and the two bytes of
\* x, of y and of the heading (0, 1, 32767, -32768, -1000, -1).
CentralBytes == {0, 1, 128, 177, 255}
EdgeBytes == {0, 1, 2, 3, 252, 254, 255}
Int16Bytes == {<<0, 0>>, <<1, 0>>, <<255, 127>>, <<0, 128>>, <<24, 252>>, <<255, 255>>}

FrameInput(t, p) ==
    Input("valid", t, p, WireChecksum(t, p), -1, WireFrame(t, p, WireChecksum(t, p)))

\* The frames received: every frame of a float type with these bytes and
\* every telemetry frame with these.
NumericFrames ==
    {FrameInput(t, <<a, b>>) : t \in FLOAT_MESSAGES, a \in ScaledBytes, b \in ScaledBytes}
    \cup {FrameInput(OPERATION_DATA, <<c, e>> \o x \o y \o h) :
             c \in CentralBytes, e \in EdgeBytes,
             x \in Int16Bytes, y \in Int16Bytes, h \in Int16Bytes}

\* The values given to from_int for a type: the least and the greatest its
\* size encodes, values between, and values it cannot encode.
IntsOfSize(n) ==
    IF n = 0 THEN {0, 1}
    ELSE IF n = 1 THEN {-1, 0, 1, 127, 128, 255, 256}
    ELSE IF n = 2 THEN {-1, 0, 255, 256, 12345, 65535, 65536}
    ELSE {-1, 0, 255, 65536, 16777216, 2147483647}

IntInputs ==
    UNION {{Given("from_int", t, v, 1) : v \in IntsOfSize(SizeOf(t))} :
              t \in SerialMessages}

\* The floats given to from_float: hundredths for the types stored in
\* hundredths, ten-thousandths for SPEED_KI.
FloatInputs ==
    {Given("from_float", t, k, 100) :
        t \in FLOAT_MESSAGES \ {SPEED_KI}, k \in 0..MaxHundredths}
    \cup {Given("from_float", SPEED_KI, k, 10000) :
             k \in {0, 1, 50, 100, 2900, 5000, 12345}}

InitNumeric ==
    /\ \/ input \in NumericFrames /\ given = NoGiven
       \/ input = NoInput /\ given \in IntInputs \cup FloatInputs
    /\ decoded = NoMessage
    /\ reencoded = <<>>
    /\ done = {}
    /\ parser = NewParser
    /\ events = <<>>
    /\ progress = NoProgress
    /\ StreamIdle
    /\ LinkIdle
    /\ AppIdle

\* SerialMessage.from_int(message, value)
DoFromInt ==
    /\ given.op = "from_int"
    /\ "from_int" \notin done
    /\ decoded' = from_int(given.type, given.num)
    /\ done' = done \cup {"from_int"}
    /\ UNCHANGED <<input, reencoded, given, parser, events, streamVars, linkVars,
                   appVars, progress>>

\* SerialMessage.from_float(message, value)
DoFromFloat ==
    /\ given.op = "from_float"
    /\ "from_float" \notin done
    /\ decoded' = from_float(given.type, given.num, given.den)
    /\ done' = done \cup {"from_float"}
    /\ UNCHANGED <<input, reencoded, given, parser, events, streamVars, linkVars,
                   appVars, progress>>

\* The message built or received is given to _handle_serial_message.
DoHandle ==
    /\ done \cap {"from_frame", "from_int", "from_float"} # {}
    /\ "handle" \notin done
    /\ decoded # Raised
    /\ LET r == Handling(store, mapper, decoded)
       IN  /\ handled' = Handled(decoded, r.raised)
           /\ store' = r.store
           /\ mapper' = r.mapper
           /\ notified' = r.notified
           /\ appended' = r.appended
    /\ done' = done \cup {"handle"}
    /\ UNCHANGED <<input, decoded, reencoded, given, parser, events, streamVars,
                   linkVars, progress>>

NextNumeric == DoFromFrame \/ DoFromInt \/ DoFromFloat \/ DoHandle

SpecNumeric == InitNumeric /\ [][NextNumeric]_vars

\* C26: a frame of raw value r (its two payload bytes, least significant
\* first) stores the float r / 10000 when its type is SPEED_KI and r / 100
\* when it is PID_ALPHA, BASE_SPEED, WHEEL_BASE_CORRECTION or IMU_ALPHA, and
\* attr_changed carries r itself.
C26_Scale ==
    LET t == input.type
        r == input.payload[1] + 256 * input.payload[2]
        scale == IF t = SPEED_KI THEN 10000 ELSE 100
    IN  /\ input.kind = "valid"
        /\ t \in {SPEED_KI, PID_ALPHA, BASE_SPEED, WHEEL_BASE_CORRECTION, IMU_ALPHA}
        /\ "handle" \in done
        => /\ store[t].kind = "float"
           /\ store[t].num * scale = r * store[t].den
           /\ notified = <<Signal("attr_changed", t, r)>>

\* The SPEED_KI frame of raw value 12345 stored 1.2345.
C26_Witness ==
    /\ input.type = SPEED_KI
    /\ input.payload = <<57, 48>>
    /\ "handle" \in done
    /\ store[SPEED_KI] = Value("float", 12345, 10000)

\* C27: from_float(T, v), for v = n / scale with scale the factor of T
\* (10000 for SPEED_KI, 100 for the other float types), builds the message
\* of type T whose two payload bytes are n, least significant first, and the
\* store decodes that message back to v.
C27_FloatRoundTrip ==
    LET t == given.type
        n == given.num
    IN  /\ given.op = "from_float" /\ "from_float" \in done =>
               decoded = SerialMessage(t, <<n % 256, n \div 256>>, 2)
        /\ given.op = "from_float" /\ "handle" \in done =>
               /\ store[t].kind = "float"
               /\ store[t].num * given.den = n * store[t].den

\* The greatest value s bytes encode (of those below 2^31).
MaxOfSize(s) == IF s = 1 THEN 255 ELSE IF s = 2 THEN 65535 ELSE 2147483647

\* C28: for a type T of size s >= 1 and 0 <= v < 2^(8s), from_int(T, v) is a
\* message of type T, not INVALID, with a payload of s bytes that
\* int.from_bytes(payload, "little"), the store's decoding, reads back as v;
\* the store takes v from it.
C28_IntRoundTrip ==
    LET t == given.type
        v == given.num
        s == SERIAL_MESSAGE_SIZES[t]
    IN  given.op = "from_int" /\ s >= 1 /\ v \in 0..MaxOfSize(s) =>
            /\ "from_int" \in done =>
                   /\ decoded # INVALID
                   /\ decoded.message = t
                   /\ decoded.size = s
                   /\ Len(decoded.payload) = s
                   /\ int_from_bytes(decoded.payload) = v
            /\ "handle" \in done /\ t \in config_map /\ ~handled.raised =>
                   notified[Len(notified)] = Signal("attr_changed", t, v)

\* from_int(PID_KD, 12345) built the payload 39 30 and the store took 12345
\* from it.
C28_Witness ==
    /\ given = Given("from_int", PID_KD, 12345, 1)
    /\ decoded.payload = <<57, 48>>
    /\ "handle" \in done
    /\ store[PID_KD] = Value("int", 12345, 1)

\* Two bytes, least significant first, as a signed integer of 16 bits.
Signed16(lo, hi) == IF hi >= 128 THEN lo + 256 * hi - 65536 ELSE lo + 256 * hi

\* C29: the record decoded from a telemetry payload b0 .. b7 has the 10
\* sensors bit 0 of b1, bits 0 to 7 of b0 in this order, bit 1 of b1 (bits 2
\* to 7 of b1 count for nothing); x and y are b2 b3 and b4 b5 as signed
\* little-endian integers of 16 bits, within -32768..32767; the heading is
\* b6 b7 read the same way, divided by 10000.
C29_TelemetryDecode ==
    LET b == input.payload
        data == mapper.operation_data
    IN  input.kind = "valid" /\ input.type = OPERATION_DATA /\ "handle" \in done =>
            /\ Len(data.sensors) = 10
            /\ data.sensors[1] = b[2] % 2
            /\ \A i \in 0..7 : data.sensors[i + 2] = (b[1] \div (2 ^ i)) % 2
            /\ data.sensors[10] = (b[2] \div 2) % 2
            /\ \A i \in 1..10 : data.sensors[i] \in {0, 1}
            /\ data.x = Signed16(b[3], b[4])
            /\ data.y = Signed16(b[5], b[6])
            /\ data.x \in -32768..32767
            /\ data.y \in -32768..32767
            /\ data.heading.num * 10000 = Signed16(b[7], b[8]) * data.heading.den
            /\ appended[2] = Row("SENSOR_DATA", <<>>, data)

\* The payload b1 fe ff ff 00 80 18 fc was decoded: sensors 0 1 0 0 0 1 1 0
\* 1 1, x = -1, y = -32768, heading = -0.1.
C29_Witness ==
    /\ input.payload = <<177, 254, 255, 255, 0, 128, 24, 252>>
    /\ "handle" \in done
    /\ mapper.operation_data.sensors = <<0, 1, 0, 0, 0, 1, 1, 0, 1, 1>>
    /\ mapper.operation_data.x = -1
    /\ mapper.operation_data.y = -32768
    /\ mapper.operation_data.heading = Value("float", -1000, 10000)


(***************************************************************************)
(* BluetoothListenerWorker: the thread that runs the read loop, and the    *)
(* thread of the user interface that starts it and calls stop.  A step of  *)
(* the worker is one statement of run; the calls of stop fall between any  *)
(* two of them.                                                            *)
(***************************************************************************)
\* The loop begins up to MaxReads calls of read_data, and stop is called up
\* to MaxStops times.
MaxReads == 8
MaxStops == 3

InitListen ==
    /\ listener = NewListener
    /\ worker = Worker("idle", "", {})
    /\ caller = Caller("idle", 0)
    /\ bluetooth = None
    /\ serials = <<>>
    /\ com_port = ""
    /\ last_receive_time = 0
    /\ ports = {}
    /\ now = 0
    /\ call = NoCall
    /\ written = <<>>
    /\ signals = <<>>
    /\ observed = <<>>
    /\ parser = NewParser
    /\ events = <<>>
    /\ progress = NoProgress
    /\ CodecIdle
    /\ StreamIdle
    /\ AppIdle

listenRest ==
    <<worker, caller, bluetooth, serials, com_port, last_receive_time, ports,
      now, call, written, signals, observed, parser, events, progress, codecVars,
      streamVars, appVars>>

\* self._worker.start(): the thread is created and will call run.
start ==
    /\ listener.pc = "created"
    /\ listener' = [listener EXCEPT !.pc = "started", !.starts = @ + 1]
    /\ UNCHANGED listenRest

\* run, line 46: self._listening = True
run_listening ==
    /\ listener.pc = "started"
    /\ listener' = [listener EXCEPT !.listening = TRUE, !.pc = "while"]
    /\ UNCHANGED listenRest

\* run, line 48: while self._listening
run_while ==
    /\ listener.pc = "while"
    /\ IF listener.listening THEN
           /\ listener.reads < MaxReads
           /\ listener' = [listener EXCEPT
                  !.pc = "read_data",
                  !.passes = IF listener.stops > 0 THEN @ + 1 ELSE @]
       ELSE
           listener' = [listener EXCEPT !.pc = "finished"]
    /\ UNCHANGED listenRest

\* run, line 49: self._line_follower.bluetooth.read_data(), which returns.
run_read_data ==
    /\ listener.pc = "read_data"
    /\ listener' = [listener EXCEPT !.pc = "while", !.reads = @ + 1]
    /\ UNCHANGED listenRest

\* stop, called on a worker that was started.
stop ==
    /\ listener.pc # "created"
    /\ listener.stops < MaxStops
    /\ listener' = [listener EXCEPT !.listening = FALSE, !.stops = @ + 1, !.passes = 0]
    /\ UNCHANGED listenRest

NextListen == start \/ run_listening \/ run_while \/ run_read_data \/ stop

SpecListen == InitListen /\ [][NextListen]_vars

\* C30: once stop was called, the loop's test does not find the flag set
\* again: the worker ends the call of read_data it is in, if any, and leaves
\* the loop without beginning another iteration, also when stop is called
\* right after start.
C30_StopEndsLoop == listener.stops > 0 => listener.passes = 0

(***************************************************************************)
(* One byte stream of the robot's side read over an open connection: the   *)
(* bytes arrive a few at a time and read_data takes those that are         *)
(* pending, so that the stream is split across the reads in every way.     *)
(***************************************************************************)
\* A stream has up to MaxStream bytes of ReadsBytes: the start byte, the
\* newline (as a type id: LOG_DATA) and 0 (text, a payload, a checksum).
MaxStream == 5
ReadsBytes == {170, NEWLINE, 0}

\* Frames with 0xAA and 0x0A in the payload and as the checksum.
InterruptingFrames ==
    {from_message(PING, <<>>, None),
     from_message(LOG_DATA, <<10>>, None),
     from_message(LOG_DATA, <<160>>, None),
     from_message(PID_KD, <<170, 10>>, None)}

\* A line of text with a frame in it: text, a frame, text, the newline.
InterruptedLines ==
    {t1 \o WireFrameOf(f) \o t2 \o <<NEWLINE>> :
        t1 \in {<<65>>, <<65, 66>>}, t2 \in {<<>>, <<67>>},
        f \in InterruptingFrames}

Streams == SeqsUpTo(ReadsBytes, MaxStream) \cup InterruptedLines

InitReads ==
    /\ input \in {Input("stream", None, <<>>, None, -1, s) : s \in Streams}
    /\ decoded = NoMessage
    /\ reencoded = <<>>
    /\ done = {}
    /\ given = NoGiven
    /\ ports = {PORT}
    /\ com_port = PORT
    /\ serials = <<Serial(PORT)>>
    /\ bluetooth = 1
    /\ now = StartTime
    /\ last_receive_time = 0
    /\ rx = <<>>
    /\ sent = <<>>
    /\ call = NoCall
    /\ written = <<>>
    /\ signals = <<>>
    /\ observed = <<>>
    /\ ThreadsIdle
    /\ parser = NewParser
    /\ events = <<>>
    /\ progress = NoProgress
    /\ AppIdle

\* The next k bytes of the stream arrive at the port, after those that are
\* pending; sent holds the bytes that arrived so far.
Deliver(k) ==
    /\ connected
    /\ Len(sent) + k <= Len(input.bytes)
    /\ rx' = rx \o SubSeq(input.bytes, Len(sent) + 1, Len(sent) + k)
    /\ sent' = sent \o SubSeq(input.bytes, Len(sent) + 1, Len(sent) + k)
    /\ UNCHANGED <<bluetooth, serials, com_port, last_receive_time, ports, now,
                   call, written, signals, observed, parser, events, progress,
                   codecVars, threadVars, appVars>>

NextReads ==
    \/ \E k \in 1..(MaxStream + 1) : Deliver(k)
    \/ \E fault \in {"none"}, reply \in {PingEcho} : read_data(fault, reply)

SpecReads == InitReads /\ [][NextReads]_vars

\* The bytes read_data has fed to the parser so far.
Fed == SubSeq(sent, 1, Len(sent) - Len(rx))

\* The bytes that end an event, in the order of the stream s from position
\* i on, the parser waiting for a start byte at i: a newline outside a frame
\* ends a log line, and the byte 2 + size(type) after a start byte ends a
\* frame.
RECURSIVE Terminators(_, _)
Terminators(s, i) ==
    IF i > Len(s) THEN <<>>
    ELSE IF s[i] = SERIAL_FRAME_START THEN
        IF i + 1 > Len(s) THEN <<>>
        ELSE LET last == i + 2 + SizeOfId(s[i + 1])
             IN  IF last > Len(s) THEN <<>>
                 ELSE <<[pos |-> last, kind |-> "frame"]>> \o Terminators(s, last + 1)
    ELSE IF s[i] = NEWLINE THEN
        <<[pos |-> i, kind |-> "log"]>> \o Terminators(s, i + 1)
    ELSE Terminators(s, i + 1)

\* The kinds of the events that end at the positions a + 1 .. b of s.
KindsBetween(s, a, b) ==
    LET all == Terminators(s, 1)
        in == {i \in DOMAIN all : a < all[i].pos /\ all[i].pos <= b}
        first == Cardinality({i \in DOMAIN all : all[i].pos <= a})
    IN  [i \in 1..Cardinality(in) |-> all[first + i].kind]

C31_Step ==
    (IsCall("read_data") /\ sent' = sent /\ connected /\ rx # <<>>) =>
        /\ rx' = <<>>
        /\ Len(events') = Len(KindsBetween(input.bytes, Len(Fed), Len(Fed')))
        /\ \A i \in DOMAIN events' :
               events'[i].kind = KindsBetween(input.bytes, Len(Fed), Len(Fed'))[i]
        /\ FeedAll(NewParser, <<>>, Fed').emit
               = FeedAll(NewParser, <<>>, Fed).emit \o events'
        /\ parser' = FeedAll(NewParser, <<>>, Fed').parser

\* C31: however the stream is split across the calls of read_data, a call
\* emits one event for each byte among those it read that ends an event (a
\* newline outside a frame, the checksum byte of a frame), in the order of
\* those bytes, and nothing else; the events of all the calls so far, one
\* after the other, and the parser they leave are those of a single read of
\* the same bytes.
C31_ArrivalOrder == [][C31_Step]_vars

\* A stream of a log line and a frame was read in more than one call: the
\* last call took the checksum byte and emitted the frame alone.
C31_Witness ==
    /\ input.bytes = <<10, 170, 10, 10, 0>>
    /\ sent = input.bytes
    /\ rx = <<>>
    /\ call.name = "read_data"
    /\ events = <<FrameEvent(SerialMessage(LOG_DATA, <<10>>, 1))>>
    /\ parser.state = SYNC

(***************************************************************************)
(* BluetoothApi.list_available_ports with _port_key: the names of the      *)
(* ports the system enumerates, sorted.  A name is the sequence of the     *)
(* code points of its characters.                                          *)
(***************************************************************************)
\* The system enumerates up to MaxPorts ports.
MaxPorts == 4

COM1 == <<67, 79, 77, 49>>
COM2 == <<67, 79, 77, 50>>
COM02 == <<67, 79, 77, 48, 50>>
COM10 == <<67, 79, 77, 49, 48>>
AUX2 == <<65, 85, 88, 50>>
BT_Serial == <<66, 84, 45, 83, 101, 114, 105, 97, 108>>
com2 == <<99, 111, 109, 50>>
USB0a == <<85, 83, 66, 48, 97>>
Bare7 == <<55>>

DeviceNames == {COM1, COM2, COM02, COM10, AUX2, BT_Serial, com2, USB0a, Bare7}

\* What list_ports.comports() returns: some of the ports, each once, in the
\* order the system gives them.
Enumerations ==
    {l \in SeqsUpTo(DeviceNames, MaxPorts) :
        \A i, j \in DOMAIN l : i # j => l[i] # l[j]}

\* The character class \d, on the characters of the names.
IsDigit(c) == c \in 48..57

\* The match of (\d+)$ in a name: the digits the name ends with.
RECURSIVE group_1(_)
group_1(device) ==
    IF device = <<>> \/ ~IsDigit(device[Len(device)]) THEN <<>>
    ELSE Append(group_1(SubSeq(device, 1, Len(device) - 1)), device[Len(device)])

\* int(digits), base ten.
RECURSIVE int_of_digits(_)
int_of_digits(digits) ==
    IF digits = <<>> THEN 0
    ELSE 10 * int_of_digits(SubSeq(digits, 1, Len(digits) - 1))
            + (digits[Len(digits)] - 48)

\* str.lower, on the characters of the names.
lower(device) ==
    [i \in DOMAIN device |->
        IF device[i] \in 65..90 THEN device[i] + 32 ELSE device[i]]

\* A key: a number, or float("inf"), and a string.
Key(inf, number, name) == [inf |-> inf, number |-> number, name |-> name]

\* Mutant: the key is the lower-cased name alone.
PortKeyByName(device) == Key(TRUE, 0, lower(device))

\* BluetoothApi._port_key
port_key(device) ==
    LET m == group_1(device)
    IN  IF m # <<>> THEN Key(FALSE, int_of_digits(m), lower(device))
        ELSE Key(TRUE, 0, lower(device))

\* Python's < on two strings: by code point, a prefix first.
str_lt(a, b) ==
    \E i \in 1..(Len(b)) :
        /\ i <= Len(a) + 1
        /\ \A k \in 1..(i - 1) : a[k] = b[k]
        /\ (i = Len(a) + 1 \/ a[i] < b[i])

\* Python's < on two keys: the numbers, then the strings.
key_lt(a, b) ==
    IF a.inf = b.inf /\ (a.inf \/ a.number = b.number) THEN str_lt(a.name, b.name)
    ELSE ~a.inf /\ (b.inf \/ a.number < b.number)

\* sorted(..., key=_port_key): a stable sort, the ports of equal keys stay
\* in the order they came.
RECURSIVE sorted_by_port_key(_)
sorted_by_port_key(l) ==
    IF l = <<>> THEN <<>>
    ELSE LET x == l[Len(l)]
             s == sorted_by_port_key(SubSeq(l, 1, Len(l) - 1))
             k == Cardinality({i \in DOMAIN s : ~key_lt(port_key(x), port_key(s[i]))})
         IN  SubSeq(s, 1, k) \o <<x>> \o SubSeq(s, k + 1, Len(s))

\* No manager object takes part: list_available_ports is a static method.
InitPorts ==
    /\ ports \in Enumerations
    /\ bluetooth = None
    /\ serials = <<>>
    /\ com_port = ""
    /\ last_receive_time = 0
    /\ now = 0
    /\ call = NoCall
    /\ written = <<>>
    /\ signals = <<>>
    /\ observed = <<>>
    /\ ThreadsIdle
    /\ parser = NewParser
    /\ events = <<>>
    /\ progress = NoProgress
    /\ CodecIdle
    /\ StreamIdle
    /\ AppIdle

\* BluetoothApi.list_available_ports(); call.ret holds the list returned.
listPorts ==
    /\ call' = Call("list_available_ports", "", sorted_by_port_key(ports),
                    <<>>, "", <<>>)
    /\ UNCHANGED <<bluetooth, serials, com_port, last_receive_time, ports, now,
                   written, signals, observed, parser, events, progress, codecVars,
                   streamVars, threadVars, appVars>>

NextPorts == listPorts

SpecPorts == InitPorts /\ [][NextPorts]_vars

\* The number a name ends with: the value of the longest run of digits at
\* its end; -1 stands for a name that ends with no digit.
C32_Number(name) ==
    LET runs == {k \in DOMAIN name : \A i \in k..Len(name) : IsDigit(name[i])}
    IN  IF runs = {} THEN -1
        ELSE LET k == CHOOSE r \in runs : \A q \in runs : r <= q
             IN  int_of_digits(SubSeq(name, k, Len(name)))

\* a comes before b, or with it: by the number (none: after every number),
\* then by the lower-cased name.
C32_InOrder(a, b) ==
    LET na == C32_Number(a)
        nb == C32_Number(b)
    IN  IF na = nb THEN lower(a) = lower(b) \/ str_lt(lower(a), lower(b))
        ELSE nb = -1 \/ (na # -1 /\ na < nb)

\* C32: the list list_available_ports returns holds the enumerated names,
\* each once, in the order of the key (number the name ends with, lower-cased
\* name), the names that end with no digit after every numbered name; COM2,
\* COM10, COM1, BT-Serial comes back as COM1, COM2, COM10, BT-Serial.
C32_NaturalOrder ==
    call.name = "list_available_ports" =>
        LET out == call.ret
        IN  /\ Len(out) = Len(ports)
            /\ {out[i] : i \in DOMAIN out} = {ports[i] : i \in DOMAIN ports}
            /\ \A i, j \in DOMAIN out : i < j => C32_InOrder(out[i], out[j])
            /\ ports = <<COM2, COM10, COM1, BT_Serial>>
                   => out = <<COM1, COM2, COM10, BT_Serial>>

C32_Witness ==
    /\ ports = <<COM2, COM10, COM1, BT_Serial>>
    /\ call.name = "list_available_ports"
    /\ call.ret = <<COM1, COM2, COM10, BT_Serial>>

(***************************************************************************)
(* Claims on the telemetry logs over any sequence of frames (SpecStore).   *)
(***************************************************************************)
\* No row was written to the gated log yet: _last_encoder_update is the
\* record of __init__ (its heading is the int 0, that of an updated record
\* the float payload / 10000).
NoGatedRow == mapper.last_encoder_update = EmptyOperationData

C33_Step ==
    LET m == handled'.message
        data == update(m.payload)
        last == mapper.last_encoder_update
        differs == \/ data.x # last.x
                   \/ data.y # last.y
                   \/ ~NumEq(data.heading, last.heading)
        gated == RowsOf("ENCODER_DATA", appended')
    IN  m.message = OPERATION_DATA =>
            /\ Cardinality(RowsOf("BINARY_FILE", appended')) = 1
            /\ \A i \in RowsOf("BINARY_FILE", appended') :
                   Len(appended'[i].payload) = 8
            /\ Cardinality(RowsOf("SENSOR_DATA", appended')) = 1
            /\ Cardinality(gated) = IF NoGatedRow \/ differs THEN 1 ELSE 0
            /\ \A i \in gated : appended'[i].data = data
            /\ mapper'.last_encoder_update = IF gated # {} THEN data ELSE last

\* C33: every OPERATION_DATA frame appends its 8 bytes to the raw log and one
\* row to the full-rate log, and appends a row to the gated log if and only
\* if its x, y or heading differs from those of the last row written to the
\* gated log (the first row is written whatever it holds), so that adjacent
\* gated rows differ in x, y or heading and a change of the sensors alone
\* adds no gated row.
C33_GatedLog == [][C33_Step]_vars

(***************************************************************************)
(* Claims on the bytes 0xAA and 0x0A met inside a frame (SpecFeed).        *)
(***************************************************************************)
C34_Step ==
    \A b \in {SERIAL_FRAME_START, NEWLINE} :
        FeedByte(b) =>
            /\ parser.state = SYNC /\ b = SERIAL_FRAME_START =>
                   /\ parser'.state = ID
                   /\ events' = <<>>
                   /\ parser'.log_buffer = parser.log_buffer
            /\ parser.state = SYNC /\ b = NEWLINE =>
                   /\ parser'.state = SYNC
                   /\ events' = <<LogEvent(parser.log_buffer)>>
                   /\ parser'.log_buffer = <<>>
            /\ parser.state # SYNC =>
                   /\ parser'.state # ID
                   /\ parser'.log_buffer = parser.log_buffer
                   /\ \A i \in DOMAIN events' : events'[i].kind = "frame"
            /\ parser.state = ID =>
                   /\ parser'.state \in {PAYLOAD, CHECKSUM}
                   /\ parser'.msg_id = IF b = NEWLINE THEN LOG_DATA ELSE INVALID_MESSAGE
                   /\ parser'.payload = <<>>
                   /\ events' = <<>>
            /\ parser.state = PAYLOAD =>
                   /\ parser'.payload = Append(parser.payload, b)
                   /\ parser'.msg_id = parser.msg_id
                   /\ parser'.state = IF Len(parser.payload) + 1 = SizeOf(parser.msg_id)
                                      THEN CHECKSUM ELSE PAYLOAD
                   /\ events' = <<>>
            /\ parser.state = CHECKSUM =>
                   /\ parser'.state = SYNC
                   /\ Len(events') = 1
                   /\ (/\ b = WireChecksum(parser.msg_id, parser.payload)
                       /\ parser.msg_id # INVALID_MESSAGE)
                      => events' = <<FrameEvent(SerialMessage(parser.msg_id,
                                                              parser.payload,
                                                              Len(parser.payload)))>>

\* C34: a byte 0xAA or 0x0A fed to a parser in ID, PAYLOAD or CHECKSUM is
\* taken as the type id, as the next payload byte or as the checksum byte of
\* the frame under way: no frame is begun, the log buffer stays as it is and
\* no log line is emitted; a frame whose payload holds such bytes and whose
\* checksum is one of them is emitted with that payload.  In SYNC, 0xAA
\* begins a frame and 0x0A ends the log line.
C34_FrameDataBytes == [][C34_Step]_vars

\* The frame aa 0a a0 aa was fed with text in the log buffer: its id is
\* 0x0A, its checksum 0xAA, and it was emitted as LOG_DATA with payload a0.
C34_Witness ==
    /\ progress.started /\ progress.id = NEWLINE /\ progress.bytes = 3
    /\ parser.state = SYNC
    /\ parser.payload = <<160>>
    /\ parser.log_buffer = <<65>>
    /\ events = <<FrameEvent(SerialMessage(LOG_DATA, <<160>>, 1))>>

(***************************************************************************)
(* Claims on the text around a frame (SpecReads).                          *)
(***************************************************************************)
\* The text of the line under way after the bytes of s from position i on,
\* text being the text before them: the bytes outside the frames since the
\* last newline outside a frame.
RECURSIVE PendingText(_, _, _)
PendingText(s, i, text) ==
    IF i > Len(s) THEN text
    ELSE IF s[i] = SERIAL_FRAME_START THEN
        IF i + 1 > Len(s) THEN text
        ELSE LET last == i + 2 + SizeOfId(s[i + 1])
             IN  IF last > Len(s) THEN text ELSE PendingText(s, last + 1, text)
    ELSE IF s[i] = NEWLINE THEN PendingText(s, i + 1, <<>>)
    ELSE PendingText(s, i + 1, Append(text, s[i]))

\* The log buffer holds the text of the line under way, whatever frames
\* were met in it.
C35_Buffer == parser.log_buffer = PendingText(Fed, 1, <<>>)

\* A call that read the bytes a + 1 .. b of the line t1, frame of f, t2,
\* newline emits the frame if it read its checksum byte, then the line
\* t1 t2 if it read the newline.
C35_Step ==
    \A t1 \in {<<65>>, <<65, 66>>}, t2 \in {<<>>, <<67>>}, f \in InterruptingFrames :
        (/\ input.bytes = t1 \o WireFrameOf(f) \o t2 \o <<NEWLINE>>
         /\ IsCall("read_data") /\ sent' = sent /\ connected /\ rx # <<>>)
        => LET a == Len(Fed)
               b == Len(Fed')
               last == Len(t1) + Len(WireFrameOf(f))
           IN  events' =
                   (IF a < last /\ last <= b THEN <<FrameEvent(f)>> ELSE <<>>)
                   \o (IF b = Len(input.bytes) THEN <<LogEvent(t1 \o t2)>> ELSE <<>>)

\* C35: the bytes of a frame leave the log buffer as it is: text received
\* before a frame and not ended by a newline stays in the buffer through the
\* frame, the frame is emitted first, and the line emitted at the next
\* newline outside a frame is the text before the frame followed by the text
\* after it.
C35_TextAroundFrame == []C35_Buffer /\ [][C35_Step]_vars

\* The line AB, frame of PID_KD with payload aa 0a, C, newline was read; the
\* last call emitted the line ABC.
C35_Witness ==
    /\ input.bytes = <<65, 66>> \o WireFrameOf(from_message(PID_KD, <<170, 10>>, None))
                        \o <<67, NEWLINE>>
    /\ sent = input.bytes
    /\ rx = <<>>
    /\ call.name = "read_data"
    /\ events = <<LogEvent(<<65, 66, 67>>)>>
    /\ parser.log_buffer = <<>>
    /\ parser.payload = <<170, 10>>

(***************************************************************************)
(* Connections opened and closed while the robot's side sends frames and   *)
(* lines in pieces: a piece arrives when the one before it was read, and   *)
(* a connection ends with nothing pending.                                 *)
(***************************************************************************)
\* The two halves of a STATE frame and of a line of text.
SessionChunks == {<<170, 4>>, <<1, 5>>, <<65>>, <<66, 10>>}

\* A piece that arrived, with the serial.Serial object it arrived on.
Arrived(on, bytes) == [on |-> on, bytes |-> bytes]

InitSession ==
    /\ ports = {PORT}
    /\ bluetooth = None
    /\ serials = <<>>
    /\ com_port = get_initial_port(ports)
    /\ last_receive_time = 0
    /\ now = StartTime
    /\ call = NoCall
    /\ written = <<>>
    /\ signals = <<>>
    /\ observed = <<>>
    /\ parser = NewParser
    /\ events = <<>>
    /\ progress = NoProgress
    /\ ThreadsIdle
    /\ CodecIdle
    /\ StreamIdle
    /\ AppIdle

\* A piece arrives at the open port; sent holds the pieces that arrived.
Arrives(c) ==
    /\ connected
    /\ rx = <<>>
    /\ Len(sent) < MaxChunks
    /\ rx' = c
    /\ sent' = Append(sent, Arrived(bluetooth, c))
    /\ UNCHANGED <<bluetooth, serials, com_port, last_receive_time, ports, now,
                   call, written, signals, observed, parser, events, progress,
                   codecVars, threadVars, appVars>>

NextSession ==
    \/ rx = <<>> /\ \E opened \in BOOLEAN : connect_serial(opened)
    \/ rx = <<>> /\ disconnect_serial
    \/ \E reply \in EchoReplies : read_data("none", reply)
    \/ \E t \in Times : Tick(t)
    \/ \E c \in SessionChunks : Arrives(c)

SpecSession == InitSession /\ [][NextSession]_vars

C36_Step ==
    (IdleIteration /\ sent' = sent /\ Len(written') = 1) =>
        /\ parser' = parser
        /\ events' = events
        /\ UNCHANGED appVars

\* C36: a liveness probe (an iteration of the read loop with nothing pending
\* that writes a PING and reads the echo, or fails to) feeds nothing to the
\* stream parser and gives nothing to its callbacks: the parser's state, its
\* payload buffer and its log buffer are after the probe what they were
\* before it, also in the middle of a frame, and nothing reaches the store.
C36_ProbeLeavesParser == [][C36_Step]_vars

\* The echo was read while the parser was in the payload of a STATE frame.
C36_Witness ==
    /\ call.name = "read_data" /\ call.echo = PingEcho /\ Len(written) = 1
    /\ connected
    /\ parser.state = PAYLOAD /\ parser.msg_id = MSG_STATE
    /\ last_receive_time = now

\* The bytes of the pieces.
RECURSIVE Flat(_)
Flat(pieces) == IF pieces = <<>> THEN <<>> ELSE Head(pieces).bytes \o Flat(Tail(pieces))

\* The bytes read so far, on every connection.
ReadAcross == Flat(SubSeq(sent, 1, IF rx = <<>> THEN Len(sent) ELSE Len(sent) - 1))

\* The parser is the one that was fed every byte read so far.
C37_Parser == parser = FeedAll(NewParser, <<>>, ReadAcross).parser

C37_Step ==
    /\ (IsCall("connect_serial") \/ IsCall("disconnect_serial")) =>
           /\ parser' = parser
           /\ events' = events
    /\ (IsCall("read_data") /\ sent' = sent /\ connected /\ rx # <<>>) =>
           FeedAll(NewParser, <<>>, ReadAcross').emit
               = FeedAll(NewParser, <<>>, ReadAcross).emit \o events'

\* C37: connect_serial and disconnect_serial leave the stream parser as it
\* is (state, payload buffer, log buffer): the parser and the events of the
\* reads are those of the bytes read on all the connections, one after the
\* other, so that the first bytes read on a connection complete the frame or
\* the line that the connection before left incomplete.
C37_ParserAcrossConnections == []C37_Parser /\ [][C37_Step]_vars

\* The first half of a STATE frame was read on one connection and the second
\* on the next: the frame was emitted and the state stored.
C37_Witness ==
    /\ sent = <<Arrived(1, <<170, 4>>), Arrived(2, <<1, 5>>)>>
    /\ rx = <<>>
    /\ events = <<FrameEvent(SerialMessage(MSG_STATE, <<1>>, 1))>>
    /\ store[MSG_STATE] = Value("RobotStates", 1, 1)

\* ---------------------------------------------------------------------
\* The last-receive time across connections
\* ---------------------------------------------------------------------

\* The previous call of the manager opened the connection in use.
JustConnected == call.name = "connect_serial" /\ call.ret = "True" /\ connected

C38_Step ==
    /\ IsCall("connect_serial") \/ IsCall("disconnect_serial")
           => last_receive_time' = last_receive_time
    /\ (/\ JustConnected
        /\ IdleIteration
        /\ com_port \in ports
        /\ call'.raised # "in_waiting")
       => IF now - last_receive_time > PING_TIMEOUT
          THEN Len(written') = 1 /\ written'[1].msg.message = PING
          ELSE written' = <<>>

ConnectionFaults == {"in_waiting", "read", "write", "echo", "port"}

C39_Step ==
    /\ \A name \in {"read_data", "write_data"} :
           IsCall(name) /\ connected /\ call'.raised \in ConnectionFaults
               => /\ signals' = <<"connection_change", "connection_failed">>
                  /\ observed' = <<FALSE, FALSE>>
                  /\ ~Connected(bluetooth', serials')
    /\ IsCall("connect_serial") /\ call'.raised = "open"
           => /\ signals' = <<"connection_failed">>
              /\ observed' = <<FALSE>>

\* C39: a read_data or write_data call on an open connection that fails
\* (in_waiting, read or write raising, the probe written but not answered
\* by the echo, the configured port not enumerated) emits connection_change
\* and then connection_failed, one of each and nothing else, and the
\* manager is not connected at either emission nor after the call; a
\* connect_serial whose open fails emits connection_failed alone, the
\* manager not connected.
C39_FailureSignals == [][C39_Step]_vars

\* A probe that was written and not answered, on an open connection.
C39_Witness ==
    /\ call.name = "read_data"
    /\ call.raised = "echo"
    /\ Len(written) = 1
    /\ signals = <<"connection_change", "connection_failed">>
    /\ observed = <<FALSE, FALSE>>
    /\ \E i \in DOMAIN serials : ~serials[i].is_open

\* ---------------------------------------------------------------------
\* The order of update and signals for a STATE frame
\* ---------------------------------------------------------------------

C40_Step ==
    LET m == handled'.message
        raw == m.payload[1]
    IN  m.message = MSG_STATE /\ raw \in RobotStates =>
            /\ store' = [store EXCEPT ![MSG_STATE] = Value("RobotStates", raw, 1)]
            /\ notified' =
                   IF store[MSG_STATE] # Value("RobotStates", raw, 1)
                   THEN <<Signal("state_changed", MSG_STATE, store'[MSG_STATE].num),
                          Signal("attr_changed", MSG_STATE, raw)>>
                   ELSE <<Signal("state_changed", MSG_STATE, store'[MSG_STATE].num)>>

\* C40: a STATE frame that carries a state leaves that state in the store
\* and nothing else changed there; the signals of the frame are
\* state_changed, carrying the state the store holds after the update, and
\* then, when the state differs from the one stored before,
\* attr_changed(STATE, the byte received), in this order and nothing else.
C40_StateThenAttr == [][C40_Step]_vars

\* A STATE frame carried a state other than the one stored: both signals
\* were emitted, state_changed first.
C40_Witness ==
    /\ handled.message = from_message(MSG_STATE, <<0>>, None)
    /\ store[MSG_STATE] = Value("RobotStates", 0, 1)
    /\ notified = <<Signal("state_changed", MSG_STATE, 0),
                    Signal("attr_changed", MSG_STATE, 0)>>

====
